---- MODULE Spec2Model ----
(***************************************************************************)
(* A model of setup.py, the script that detects which optional extension   *)
(* modules of the interpreter can be built, reconciles them with the       *)
(* Setup files, has them compiled, import-checks them and prints a summary.*)
(*                                                                         *)
(* A path is a sequence of components; an absolute path starts with the    *)
(* component "/", and a trailing separator is a trailing "" component:     *)
(*   /usr/include/  is  <<"/", "usr", "include", "">>.                     *)
(* The file system is the set  fs  of the paths that exist.                *)
(***************************************************************************)
EXTENDS Integers, Sequences, FiniteSets, TLC

VARIABLES
    pc,                  \* position in PyBuildExt.build_extensions (or "call"/"returned")
    extensions,          \* self.extensions: the registry, a sequence of Extension records
    missing,             \* self.missing
    disabled_configure,  \* self.disabled_configure
    failed,              \* self.failed
    failed_on_import,    \* self.failed_on_import
    mods_built,          \* build_extensions' local mods_built
    mods_disabled,       \* build_extensions' local mods_disabled
    DISABLED_MODULE_LIST,\* the global list of modules to be disabled
    LIST_MODULE_NAMES,   \* the global set by --list-module-names
    HOST_PLATFORM,       \* the global HOST_PLATFORM
    MACOS_SDK_ROOT,      \* the global MACOS_SDK_ROOT, as macosx_sdk_root() returns it
    config_vars,         \* the sysconfig variables the modelled routines read
    environ,             \* os.environ, the variables the modelled routines read
    fs,                  \* the paths that exist in the file system
    todo,                \* what the running loop has left (detectors, extensions)
    output,              \* what summary() has printed
    result,              \* "running", "ok" (returned) or the exception raised
    args,                \* the arguments of the routine a function-level specification applies
    ret,                 \* what that routine returned
    self_compiler,       \* self.compiler: its library_dirs, include_dirs, runtime_library_dirs
    lib_dirs,            \* self.lib_dirs
    inc_dirs             \* self.inc_dirs

vars == <<pc, extensions, missing, disabled_configure, failed, failed_on_import,
          mods_built, mods_disabled, DISABLED_MODULE_LIST, LIST_MODULE_NAMES,
          HOST_PLATFORM, MACOS_SDK_ROOT, config_vars, environ, fs, todo, output,
          result, args, ret, self_compiler, lib_dirs, inc_dirs>>

(***************************************************************************)
(* Bounds of the model.                                                    *)
(***************************************************************************)
\* the longest registry a function-level specification starts from
MaxExt == 3
\* the longest directory list handed to the path search routines
MaxDirs == 2

(***************************************************************************)
(* Generic helpers.                                                        *)
(***************************************************************************)
None == "None"

Range(s) == {s[i] : i \in DOMAIN s}

Contains(s, x) == \E i \in DOMAIN s : s[i] = x

\* the sequences over S of length at most n
RECURSIVE SeqsUpTo(_, _)
SeqsUpTo(S, n) ==
    IF n = 0 THEN {<<>>}
    ELSE LET shorter == SeqsUpTo(S, n - 1)
         IN shorter \cup {Append(s, x) : s \in {t \in shorter : Len(t) = n - 1}, x \in S}

\* the sequences over S of length at most n without repeated elements
InjSeqs(S, n) ==
    {s \in SeqsUpTo(S, n) : \A i, j \in DOMAIN s : i # j => s[i] # s[j]}

RECURSIVE Flatten(_)
Flatten(ss) == IF ss = <<>> THEN <<>> ELSE Head(ss) \o Flatten(Tail(ss))

Max(a, b) == IF a >= b THEN a ELSE b

(***************************************************************************)
(* os.path on component sequences.                                         *)
(***************************************************************************)
\* os.path.isabs
isabs(path) == Len(path) >= 1 /\ path[1] = "/"

\* str.rstrip(os.sep): drop every trailing separator
RECURSIVE rstrip_sep(_)
rstrip_sep(path) ==
    IF Len(path) >= 1 /\ path[Len(path)] = ""
    THEN rstrip_sep(SubSeq(path, 1, Len(path) - 1))
    ELSE IF path = <<"/">> THEN <<>> ELSE path

\* os.path.join(a, b): b replaces a when b is absolute; no separator is
\* added after an a that already ends with one
join(a, b) ==
    IF isabs(b) THEN b
    ELSE IF a = <<>> THEN b
    ELSE IF a[Len(a)] = "" THEN SubSeq(a, 1, Len(a) - 1) \o b
    ELSE a \o b

\* path[1:] of a path that starts with the separator
drop_root(path) == IF isabs(path) THEN Tail(path) ELSE path

\* os.path.normpath, for the paths of the model: empty and "." components go
normpath(path) ==
    LET keep(c) == c # "" /\ c # "."
    IN  SelectSeq(path, keep)

\* os.getcwd(): the build directory
getcwd == <<"/", "build">>

\* os.path.abspath
abspath(path) == IF isabs(path) THEN normpath(path) ELSE normpath(join(getcwd, path))

\* os.path.exists / os.path.lexists: trailing separators do not matter
exists(files, path) == normpath(path) \in files

\* os.path.dirname of the path of a file
dirname(path) == SubSeq(path, 1, Len(path) - 1)

(***************************************************************************)
(* Platform profile.                                                       *)
(***************************************************************************)
MACOS == HOST_PLATFORM = "darwin"
CYGWIN == HOST_PLATFORM = "cygwin"
CROSS_COMPILING == "_PYTHON_HOST_PLATFORM" \in DOMAIN environ

\* the directory components that start with "local"
LocalNames == {"local"}

is_macosx_sdk_path(path) ==
    \/ /\ Len(path) >= 3 /\ path[1] = "/" /\ path[2] = "usr"
       /\ path[3] \notin LocalNames
    \/ Len(path) >= 3 /\ path[1] = "/" /\ path[2] = "System" /\ path[3] = "Library"
    \/ Len(path) >= 3 /\ path[1] = "/" /\ path[2] = "System" /\ path[3] = "iOSSupport"

(***************************************************************************)
(* Path Search Engine.  A search result is a record: kind "None" (not      *)
(* found), kind "list" with the list of additional directories, or kind    *)
(* "AssertionError".                                                       *)
(***************************************************************************)
NotFound == [kind |-> "None", dirs |-> <<>>]
DirList(dirs) == [kind |-> "list", dirs |-> dirs]
InternalError == [kind |-> "AssertionError", dirs |-> <<>>]

\* find_file as it would be if it ignored the SDK root
find_file_candidate_no_sdk(filename, dir_) == join(dir_, filename)

\* the file find_file tests for directory dir_
find_file_candidate(filename, dir_) ==
    IF MACOS /\ is_macosx_sdk_path(dir_)
    THEN join(join(MACOS_SDK_ROOT, drop_root(dir_)), filename)
    ELSE join(dir_, filename)

find_file(filename, std_dirs, paths) ==
    IF \E i \in DOMAIN std_dirs : exists(fs, find_file_candidate(filename, std_dirs[i]))
    THEN DirList(<<>>)
    ELSE IF \E i \in DOMAIN paths : exists(fs, find_file_candidate(filename, paths[i]))
    THEN LET first == CHOOSE i \in DOMAIN paths :
                 /\ exists(fs, find_file_candidate(filename, paths[i]))
                 /\ \A j \in 1..(i - 1) :
                        ~exists(fs, find_file_candidate(filename, paths[j]))
         IN  DirList(<<paths[first]>>)
    ELSE NotFound

\* whether entry p of a directory list is the directory dirname_
library_dir_matches(p, dirname_) ==
    LET q == rstrip_sep(p)
    IN  \/ MACOS /\ is_macosx_sdk_path(q) /\ join(MACOS_SDK_ROOT, drop_root(q)) = dirname_
        \/ q = dirname_

\* find_library_file as it would be if it looked at the additional directories first
find_library_file_paths_first(compiler, libname, std_dirs, paths) ==
    IF compiler.kind = "None" THEN NotFound
    ELSE LET dirname_ == dirname(compiler.path)
         IN  IF \E i \in DOMAIN paths : library_dir_matches(paths[i], dirname_)
             THEN LET first == CHOOSE i \in DOMAIN paths :
                          /\ library_dir_matches(paths[i], dirname_)
                          /\ \A j \in 1..(i - 1) : ~library_dir_matches(paths[j], dirname_)
                  IN  DirList(<<rstrip_sep(paths[first])>>)
             ELSE IF \E i \in DOMAIN std_dirs : library_dir_matches(std_dirs[i], dirname_)
             THEN DirList(<<>>)
             ELSE InternalError

\* compiler is what compiler.find_library_file(std_dirs + paths, libname)
\* answered: kind "None", or kind "file" with the path of the library file
find_library_file(compiler, libname, std_dirs, paths) ==
    IF compiler.kind = "None" THEN NotFound
    ELSE LET dirname_ == dirname(compiler.path)
         IN  IF \E i \in DOMAIN std_dirs : library_dir_matches(std_dirs[i], dirname_)
             THEN DirList(<<>>)
             ELSE IF \E i \in DOMAIN paths : library_dir_matches(paths[i], dirname_)
             THEN LET first == CHOOSE i \in DOMAIN paths :
                          /\ library_dir_matches(paths[i], dirname_)
                          /\ \A j \in 1..(i - 1) : ~library_dir_matches(paths[j], dirname_)
                  IN  DirList(<<rstrip_sep(paths[first])>>)
             ELSE InternalError

find_module_file(module, dirlist) ==
    LET dirs == find_file(module, <<>>, dirlist)
    IN  IF dirs.kind = "None" \/ dirs.dirs = <<>>
        THEN module
        ELSE abspath(join(dirs.dirs[1], module))

(***************************************************************************)
(* The config store and the environment.  config_vars and environ are      *)
(* functions from the names that are set to their values.                  *)
(***************************************************************************)
\* whether sysconfig.get_config_var(name) is a true value
config_set(name) == name \in DOMAIN config_vars

\* str.upper() of the module names of the model
upper(name) ==
    CASE name = "_ssl" -> "_SSL"
      [] name = "_hashlib" -> "_HASHLIB"
      [] name = "zlib" -> "ZLIB"
      [] name = "_ctypes" -> "_CTYPES"
      [] name = "_dbm" -> "_DBM"
      [] name = "_gdbm" -> "_GDBM"
      [] name = "_decimal" -> "_DECIMAL"
      [] name = "pyexpat" -> "PYEXPAT"
      [] name = "_datetime" -> "_DATETIME"
      [] name = "_testcapi" -> "_TESTCAPI"
      [] name = "_testinternalcapi" -> "_TESTINTERNALCAPI"
      [] name = "_testbuffer" -> "_TESTBUFFER"
      [] name = "_testimportmultiple" -> "_TESTIMPORTMULTIPLE"
      [] name = "_testmultiphase" -> "_TESTMULTIPHASE"
      [] name = "_xxtestfuzz" -> "_XXTESTFUZZ"
      [] name = "_sqlite3" -> "_SQLITE3"
      [] name = "ossaudiodev" -> "OSSAUDIODEV"
      [] name = "_scproxy" -> "_SCPROXY"
      [] name = "_elementtree" -> "_ELEMENTTREE"
      [] name = "_ctypes_test" -> "_CTYPES_TEST"
      [] name = "_md5" -> "_MD5"
      [] name = "_sha1" -> "_SHA1"
      [] name = "_sha256" -> "_SHA256"
      [] name = "_sha512" -> "_SHA512"
      [] name = "_sha3" -> "_SHA3"
      [] name = "_blake2" -> "_BLAKE2"
      [] OTHER -> name

(***************************************************************************)
(* Module Descriptor Registry.                                             *)
(***************************************************************************)
\* distutils' Extension(name, sources): every other list starts empty
Extension(name, sources) ==
    [name |-> name, sources |-> sources, include_dirs |-> <<>>,
     define_macros |-> <<>>, undef_macros |-> <<>>, library_dirs |-> <<>>,
     libraries |-> <<>>, runtime_library_dirs |-> <<>>, extra_objects |-> <<>>,
     extra_compile_args |-> <<>>, extra_link_args |-> <<>>, depends |-> <<>>]

\* A flag token is [switch, key, eq, val]: switch is token[0:2], and token[2:]
\* is key, followed by "=" and val when eq.
token_value(token) == [key |-> token.key, eq |-> token.eq, val |-> token.val]

\* the switches of the model's tokens that start with "-"
DashSwitches == {"-I", "-D", "-U", "-L", "-l", "-W", "-p", "-f"}

\* token.endswith(('.a', '.o', '.so', '.sl', '.dylib')), for the model's tokens
ObjectFileKeys == {"bmpdec.a", "bexpat.a", "o.o", "bz.so", "l,x.a"}

RECURSIVE parse_cflags(_, _)
parse_cflags(ext, tokens) ==
    IF tokens = <<>> THEN ext
    ELSE LET token == Head(tokens)
             next ==
               CASE token.switch = "-I" ->
                      [ext EXCEPT !.include_dirs = Append(@, token_value(token))]
                 [] token.switch = "-D" ->
                      [ext EXCEPT !.define_macros =
                          Append(@, <<token.key, IF token.val = "" THEN None ELSE token.val>>)]
                 [] token.switch = "-U" ->
                      [ext EXCEPT !.undef_macros = Append(@, token_value(token))]
                 [] OTHER ->
                      [ext EXCEPT !.extra_compile_args = Append(@, token)]
         IN  parse_cflags(next, Tail(tokens))

\* the token '' (shlex.split of a value holding an empty quoted word):
\* token[0:2] is '' for no other token
empty_word(token) == token.switch = ""

\* token[0] raises IndexError on the first empty word that reaches it
raises_IndexError(tokens) == \E i \in DOMAIN tokens : empty_word(tokens[i])

\* the linker tokens are handled one by one; token[0] of an empty word
\* raises, and the tokens handled before it stay in the descriptor
RECURSIVE parse_ldflags(_, _)
parse_ldflags(ext, tokens) ==
    IF tokens = <<>> \/ empty_word(Head(tokens)) THEN ext
    ELSE LET token == Head(tokens)
             next ==
               CASE token.switch = "-L" ->
                      [ext EXCEPT !.library_dirs = Append(@, token_value(token))]
                 [] token.switch = "-l" ->
                      [ext EXCEPT !.libraries = Append(@, token_value(token))]
                 [] /\ token.switch \notin {"-L", "-l"}
                    /\ token.switch \notin DashSwitches
                    /\ ~token.eq /\ token.key \in ObjectFileKeys ->
                      [ext EXCEPT !.extra_objects = Append(@, token)]
                 [] OTHER ->
                      [ext EXCEPT !.extra_link_args = Append(@, token)]
         IN  parse_ldflags(next, Tail(tokens))

\* MODULE_{NAME}_CFLAGS and MODULE_{NAME}_LDFLAGS are token lists (shlex.split
\* of the variable); an unset or empty variable contributes nothing
update_extension_flags(ext) ==
    LET upper_name == upper(ext.name)
        cflags == IF config_set("MODULE_CFLAGS") /\ upper_name \in DOMAIN config_vars["MODULE_CFLAGS"]
                  THEN config_vars["MODULE_CFLAGS"][upper_name] ELSE <<>>
        ldflags == IF config_set("MODULE_LDFLAGS") /\ upper_name \in DOMAIN config_vars["MODULE_LDFLAGS"]
                   THEN config_vars["MODULE_LDFLAGS"][upper_name] ELSE <<>>
    IN  parse_ldflags(parse_cflags(ext, cflags), ldflags)

\* whether update_extension_flags(ext) raises instead of returning
update_extension_flags_raises(ext) ==
    /\ config_set("MODULE_LDFLAGS")
    /\ upper(ext.name) \in DOMAIN config_vars["MODULE_LDFLAGS"]
    /\ raises_IndexError(config_vars["MODULE_LDFLAGS"][upper(ext.name)])

\* addext as it would be if the final else did nothing
addext_unrecognised_dropped(reg, ext, state) ==
    LET e == update_extension_flags(ext)
    IN  CASE state = "yes" ->
               [reg EXCEPT !.extensions = Append(@, e)]
          [] state = "disabled" ->
               [reg EXCEPT !.disabled_configure = Append(@, e.name)]
          [] state = "missing" ->
               [reg EXCEPT !.missing = Append(@, e.name)]
          [] OTHER -> reg

\* the registry, missing list and disabled-by-configure list after
\* self.addext(ext) when MODULE_{NAME} is state ("" when it is not set)
addext(reg, ext, state) ==
    LET e == update_extension_flags(ext)
    IN  CASE state = "yes" ->
               [reg EXCEPT !.extensions = Append(@, e)]
          [] state = "disabled" ->
               [reg EXCEPT !.disabled_configure = Append(@, e.name)]
          [] state = "missing" ->
               [reg EXCEPT !.missing = Append(@, e.name)]
          [] state = "n/a" -> reg
          [] OTHER ->
               [reg EXCEPT !.extensions = Append(@, e)]

\* the index of the last extension named name (ext_map[name]), 0 when there is none
ext_map(exts, name) ==
    IF \E i \in DOMAIN exts : exts[i].name = name
    THEN CHOOSE i \in DOMAIN exts :
            /\ exts[i].name = name
            /\ \A j \in DOMAIN exts : exts[j].name = name => j <= i
    ELSE 0

\* list.pop(i)
pop(seq, i) == SubSeq(seq, 1, i - 1) \o SubSeq(seq, i + 1, Len(seq))

\* remove_disabled as it would be if it did not move _ctypes
remove_disabled_in_place(exts, disabled) ==
    LET keep(ext) == ext.name \notin disabled
    IN  SelectSeq(exts, keep)

remove_disabled(exts, disabled) ==
    LET keep(ext) == ext.name \notin disabled
        kept == SelectSeq(exts, keep)
        at == ext_map(kept, "_ctypes")
    IN  IF at # 0 THEN Append(pop(kept, at), kept[at]) ELSE kept

\* the Python header files update_sources_depends appends to every depends
headers == << <<"/", "build", "pyconfig.h">>, <<"/", "src", "Include", "Python.h">> >>

\* moddirlist of update_sources_depends
moddirlist == <<join(abspath(config_vars["srcdir"]), <<"Modules">>), getcwd>>

\* MODULE_{NAME}_DEPS.split() without the line-continuation backslashes
makedeps(name) ==
    IF config_set("MODULE_DEPS") /\ upper(name) \in DOMAIN config_vars["MODULE_DEPS"]
    THEN LET keep(dep) == dep # <<"\\">>
         IN  SelectSeq(config_vars["MODULE_DEPS"][upper(name)], keep)
    ELSE <<>>

update_sources_depends_ext(ext) ==
    LET with_deps == ext.depends \o makedeps(ext.name)
    IN  [ext EXCEPT
           !.sources = [i \in DOMAIN ext.sources |->
                           find_module_file(ext.sources[i], moddirlist)],
           !.depends = [i \in DOMAIN with_deps |->
                           find_module_file(with_deps[i], moddirlist)] \o headers]

update_sources_depends(exts) ==
    [i \in DOMAIN exts |-> update_sources_depends_ext(exts[i])]

\* self.build_lib and the file an extension is built into
build_lib == <<"/", "build", "lib">>
get_ext_filename(name) == <<name \o ".so">>
get_ext_fullpath(name) == join(build_lib, get_ext_filename(name))

\* what handle_configured_extensions computes from the registry and the
\* MODBUILT_NAMES, MODSHARED_NAMES and MODDISABLED_NAMES sets
configured_built(exts) ==
    LET in_built(ext) == ext.name \in config_vars["MODBUILT_NAMES"]
    IN  SelectSeq(exts, in_built)

configured_disabled(exts) ==
    LET in_dis(ext) == ext.name \in config_vars["MODDISABLED_NAMES"]
    IN  SelectSeq(exts, in_dis)

\* handle_configured_extensions as it would be if it dropped only the built modules
configured_rest_built_only(exts) ==
    LET mods_configured == configured_built(exts)
        keep(x) == ~Contains(mods_configured, x)
    IN  SelectSeq(exts, keep)

configured_rest(exts) ==
    LET mods_configured == configured_built(exts) \o configured_disabled(exts)
        keep(x) == ~Contains(mods_configured, x)
    IN  SelectSeq(exts, keep)

\* handle_configured_extensions as it would be if it did not spare the shared modules
configured_unlinked_shared_too(exts) ==
    LET mods_configured == configured_built(exts) \o configured_disabled(exts)
    IN  {get_ext_fullpath(mods_configured[i].name) : i \in DOMAIN mods_configured} \cap fs

\* the previously built artifacts handle_configured_extensions removes
configured_unlinked(exts) ==
    LET mods_configured == configured_built(exts) \o configured_disabled(exts)
    IN  {get_ext_fullpath(mods_configured[i].name) : i \in
            {j \in DOMAIN mods_configured :
                /\ mods_configured[j].name \notin config_vars["MODSHARED_NAMES"]
                /\ exists(fs, get_ext_fullpath(mods_configured[j].name))}}

(***************************************************************************)
(* Outcome Reporter.                                                       *)
(***************************************************************************)
\* the position of name.lower() among the lower-cased names of the model
\* (the padding entry "" sorts first)
lower_rank(name) ==
    CASE name = "" -> 0
      [] name = "_ctypes" -> 1
      [] name = "_dbm" -> 2
      [] name = "_gdbm" -> 3
      [] name = "_hashlib" -> 4
      [] name = "_ssl" -> 5
      [] name = "zlib" -> 6
      [] name = "Zlib" -> 6
      [] OTHER -> 7

\* insert x after the entries whose key is not greater (a stable sort)
RECURSIVE insert_sorted(_, _)
insert_sorted(sorted, x) ==
    IF sorted = <<>> THEN <<x>>
    ELSE IF lower_rank(Head(sorted)) <= lower_rank(x)
         THEN <<Head(sorted)>> \o insert_sorted(Tail(sorted), x)
         ELSE <<x>> \o sorted

\* lst.sort(key=str.lower)
RECURSIVE sort_lower(_)
sort_lower(lst) ==
    IF lst = <<>> THEN <<>>
    ELSE insert_sorted(sort_lower(SubSeq(lst, 1, Len(lst) - 1)), lst[Len(lst)])

\* while len(lst) % 3: lst.append("")
pad3(lst) ==
    CASE Len(lst) % 3 = 0 -> lst
      [] Len(lst) % 3 = 1 -> lst \o <<"", "">>
      [] Len(lst) % 3 = 2 -> lst \o <<"">>

\* print_three_column as it would be if it did not sort
three_column_list_unsorted(lst) == pad3(lst)

\* the list print_three_column leaves behind: sorted and padded in place
three_column_list(lst) == pad3(sort_lower(lst))

\* the rows print_three_column prints, each entry padded to width longest
print_three_column(lst, longest) ==
    LET l == three_column_list(lst)
    IN  [r \in 1..(Len(l) \div 3) |->
            [kind |-> "row", width |-> longest,
             cells |-> <<l[3 * r - 2], l[3 * r - 1], l[3 * r]>>]]

RECURSIVE max_len(_)
max_len(names) ==
    IF names = <<>> THEN 0 ELSE Max(Len(Head(names)), max_len(Tail(names)))

names_of(exts) == [i \in DOMAIN exts |-> exts[i].name]

\* longest of summary()
summary_longest ==
    LET of_exts == max_len(names_of(extensions))
    IN  IF failed # <<>> \/ failed_on_import # <<>>
        THEN Max(of_exts, max_len(failed \o failed_on_import))
        ELSE of_exts

\* one category of the report: nothing for an empty list
summary_section(title, lst) ==
    IF lst = <<>> THEN <<>>
    ELSE <<[kind |-> "title", width |-> 0, cells |-> <<title>>]>>
         \o print_three_column(lst, summary_longest)

\* self.missing when summary() comes to the TLS warning: print_three_column
\* has sorted and padded it
missing_as_printed == IF missing # <<>> THEN three_column_list(missing) ELSE missing

\* the TLS warning as it would be if it looked at the missing list only
ssl_warning_missing_only ==
    IF Contains(missing_as_printed, "_ssl")
    THEN <<[kind |-> "ssl_warning", width |-> 0,
            cells |-> IF config_set("OPENSSL_LDFLAGS") THEN <<"rpath hint">> ELSE <<>>]>>
    ELSE <<>>

ssl_warning ==
    IF Contains(missing_as_printed, "_ssl") \/ Contains(failed, "_ssl")
       \/ Contains(failed_on_import, "_ssl")
    THEN <<[kind |-> "ssl_warning", width |-> 0,
            cells |-> IF config_set("OPENSSL_LDFLAGS") THEN <<"rpath hint">> ELSE <<>>]>>
    ELSE <<>>

\* os.environ.get("PYTHONSTRICTEXTENSIONBUILD") is a true value
strict_build ==
    /\ "PYTHONSTRICTEXTENSIONBUILD" \in DOMAIN environ
    /\ environ["PYTHONSTRICTEXTENSIONBUILD"] # ""

\* summary() as it would be if the missing list counted as a failure
summary_raises_on_missing ==
    strict_build /\ (failed # <<>> \/ failed_on_import # <<>> \/ missing # <<>>)

\* summary() as it would be if it did not look at the strict-mode flag
summary_raises_unconditionally == failed # <<>> \/ failed_on_import # <<>>

\* whether summary() raises
summary_raises == strict_build /\ (failed # <<>> \/ failed_on_import # <<>>)

summary_report ==
    summary_section("missing", missing)
    \o summary_section("built by the Makefile", names_of(mods_built))
    \o summary_section("disabled in the Setup files", names_of(mods_disabled))
    \o summary_section("disabled by configure", disabled_configure)
    \o summary_section("failed", failed)
    \o summary_section("failed on import", failed_on_import)
    \o ssl_warning

(***************************************************************************)
(* PyBuildExt.build_extensions, step by step.                              *)
(***************************************************************************)
\* the detectors of the run-level model, in the order detect_modules calls them
DetectOrder == <<"_ssl", "zlib", "_ctypes">>

ModuleNames == Range(DetectOrder)

\* the sources each detector names
module_sources(name) ==
    CASE name = "_ssl" -> << <<"_ssl.c">> >>
      [] name = "zlib" -> << <<"zlibmodule.c">> >>
      [] name = "_ctypes" -> << <<"_ctypes", "_ctypes.c">>, <<"_ctypes", "callbacks.c">> >>
      [] OTHER -> << <<name \o "module.c">> >>

\* the values MODULE_{NAME} takes ("" for a variable that is not set)
ModuleStates == {"yes", "disabled", "missing", "n/a", ""}

registry == [extensions |-> extensions, missing |-> missing,
             disabled_configure |-> disabled_configure]

announce(what, name) == [kind |-> "announce", width |-> 0, cells |-> <<what, name>>]

\* where build_extensions goes when detect_modules has returned
after_detect(rest) ==
    IF rest # <<>> THEN "detect"
    ELSE IF LIST_MODULE_NAMES THEN "update_sources_depends" ELSE "remove_disabled"

SetSrcdir ==
    /\ pc = "set_srcdir"
    /\ IF config_set("srcdir")
       THEN pc' = "detect" /\ todo' = DetectOrder /\ result' = result
       ELSE pc' = "done" /\ todo' = <<>> /\ result' = "ValueError"
    /\ UNCHANGED <<extensions, missing, disabled_configure, failed, failed_on_import,
                   mods_built, mods_disabled, DISABLED_MODULE_LIST, LIST_MODULE_NAMES,
                   HOST_PLATFORM, MACOS_SDK_ROOT, config_vars, environ, fs, output,
                   args, ret,
                   self_compiler, lib_dirs, inc_dirs>>

detect_frame == <<failed, failed_on_import, mods_built, mods_disabled,
                  DISABLED_MODULE_LIST, LIST_MODULE_NAMES, HOST_PLATFORM,
                  MACOS_SDK_ROOT, config_vars, environ, fs, output, result, args, ret,
                   self_compiler, lib_dirs, inc_dirs>>

\* a detector that registers its module with self.add
DetectAdd ==
    /\ pc = "detect" /\ todo # <<>>
    /\ extensions' = Append(extensions, Extension(Head(todo), module_sources(Head(todo))))
    /\ todo' = Tail(todo)
    /\ pc' = after_detect(todo')
    /\ UNCHANGED <<missing, disabled_configure>>
    /\ UNCHANGED detect_frame

\* a detector that registers its module with self.addext
DetectAddext ==
    /\ pc = "detect" /\ todo # <<>>
    /\ \E state \in ModuleStates :
          LET reg == addext(registry, Extension(Head(todo), module_sources(Head(todo))), state)
          IN  /\ extensions' = reg.extensions
              /\ missing' = reg.missing
              /\ disabled_configure' = reg.disabled_configure
    /\ todo' = Tail(todo)
    /\ pc' = after_detect(todo')
    /\ UNCHANGED detect_frame

\* a detector that finds a prerequisite of its module missing
DetectMissing ==
    /\ pc = "detect" /\ todo # <<>>
    /\ missing' = Append(missing, Head(todo))
    /\ todo' = Tail(todo)
    /\ pc' = after_detect(todo')
    /\ UNCHANGED <<extensions, disabled_configure>>
    /\ UNCHANGED detect_frame

RemoveDisabled ==
    /\ pc = "remove_disabled"
    /\ extensions' = remove_disabled(extensions, DISABLED_MODULE_LIST)
    /\ pc' = "update_sources_depends"
    /\ UNCHANGED <<missing, disabled_configure, todo>>
    /\ UNCHANGED detect_frame

UpdateSourcesDepends ==
    /\ pc = "update_sources_depends"
    /\ extensions' = update_sources_depends(extensions)
    /\ pc' = "handle_configured_extensions"
    /\ UNCHANGED <<missing, disabled_configure, todo>>
    /\ UNCHANGED detect_frame

HandleConfiguredExtensions ==
    /\ pc = "handle_configured_extensions"
    /\ mods_built' = configured_built(extensions)
    /\ mods_disabled' = configured_disabled(extensions)
    /\ extensions' = configured_rest(extensions)
    /\ fs' = fs \ configured_unlinked(extensions)
    /\ pc' = IF LIST_MODULE_NAMES THEN "list"
             ELSE IF extensions' = <<>> THEN "summary" ELSE "build"
    /\ todo' = IF LIST_MODULE_NAMES THEN <<>> ELSE extensions'
    /\ UNCHANGED <<missing, disabled_configure, failed, failed_on_import,
                   DISABLED_MODULE_LIST, LIST_MODULE_NAMES, HOST_PLATFORM,
                   MACOS_SDK_ROOT, config_vars, environ, output, result, args, ret,
                   self_compiler, lib_dirs, inc_dirs>>

\* --list-module-names: print the registry and the missing list, and return
ListModuleNames ==
    /\ pc = "list"
    /\ output' = output \o [i \in DOMAIN extensions |->
                               [kind |-> "name", width |-> 0, cells |-> <<extensions[i].name>>]]
                        \o [i \in DOMAIN missing |->
                               [kind |-> "name", width |-> 0, cells |-> <<missing[i]>>]]
    /\ pc' = "done" /\ result' = "ok"
    /\ UNCHANGED <<extensions, missing, disabled_configure, failed, failed_on_import,
                   mods_built, mods_disabled, DISABLED_MODULE_LIST, LIST_MODULE_NAMES,
                   HOST_PLATFORM, MACOS_SDK_ROOT, config_vars, environ, fs, todo,
                   args, ret,
                   self_compiler, lib_dirs, inc_dirs>>

\* the flags check_extension_import looks for in extra_link_args
CarbonFlag == [switch |-> "Ca", key |-> "rbon", eq |-> FALSE, val |-> ""]
ArchFlag == [switch |-> "-a", key |-> "rch", eq |-> FALSE, val |-> ""]

\* sys.maxsize > 2**32
wide_process == config_set("SIZEOF_VOID_P") /\ config_vars["SIZEOF_VOID_P"] = 8

\* '-j' in os.environ.get('MAKEFLAGS', ''): distutils builds in parallel
parallel == "MAKEFLAGS" \in DOMAIN environ /\ environ["MAKEFLAGS"] = "-j"

\* the file check_extension_import renames a module that fails to import to
failed_filename(name) == join(build_lib, <<name \o "_failed" \o ".so">>)

\* os.remove(path) and os.rename(src, dst) of files that exist
os_remove(files, path) == files \ {normpath(path)}
os_rename(files, src, dst) == (files \ {normpath(src)}) \cup {normpath(dst)}

\* self.inplace: the Makefile runs "setup.py build", never build_ext --inplace
inplace == FALSE

\* the ImportError handler as it would be if it deleted the artifact
rename_failed_removes(files, name) == os_remove(files, get_ext_fullpath(name))

\* the file system after the ImportError handler has moved the artifact of
\* name out of the way
rename_failed(files, name) ==
    LET newname == failed_filename(name)
        cleared == IF exists(files, newname) THEN os_remove(files, newname) ELSE files
    IN  os_rename(cleared, get_ext_fullpath(name), newname)

build_frame == <<extensions, missing, disabled_configure, failed_on_import,
                 mods_built, mods_disabled, DISABLED_MODULE_LIST, LIST_MODULE_NAMES,
                 HOST_PLATFORM, MACOS_SDK_ROOT, config_vars, environ, result, args, ret,
                   self_compiler, lib_dirs, inc_dirs>>

\* build_ext.build_extensions hands the extensions to build_extension, in
\* registry order or, in a parallel build, in any order
BuildTurn(i) == i \in DOMAIN todo /\ (parallel \/ i = 1)

\* build_extension: the toolchain builds the artifact
BuildExtensionOk ==
    /\ pc = "build"
    /\ \E i \in DOMAIN todo :
          /\ BuildTurn(i)
          /\ fs' = fs \cup {get_ext_fullpath(todo[i].name)}
          /\ todo' = IF Len(todo) = 1 THEN extensions ELSE pop(todo, i)
          /\ pc' = IF Len(todo) = 1 THEN "check" ELSE "build"
    /\ UNCHANGED <<failed, output>>
    /\ UNCHANGED build_frame

\* build_extension: the toolchain reports a CCompilerError or DistutilsError
BuildExtensionFails ==
    /\ pc = "build"
    /\ \E i \in DOMAIN todo :
          /\ BuildTurn(i)
          /\ failed' = Append(failed, todo[i].name)
          /\ output' = Append(output, announce("building failed", todo[i].name))
          /\ todo' = IF Len(todo) = 1 THEN extensions ELSE pop(todo, i)
          /\ pc' = IF Len(todo) = 1 THEN "check" ELSE "build"
    /\ UNCHANGED fs
    /\ UNCHANGED build_frame

\* check_extension_import as it would be without the test for a failed build
skip_reason_ignores_failed(ext) ==
    IF Contains(ext.extra_link_args, CarbonFlag) THEN "Carbon-based"
    ELSE IF MACOS /\ wide_process /\ Contains(ext.extra_link_args, ArchFlag) THEN "-arch"
    ELSE IF CYGWIN THEN "Cygwin-based"
    ELSE IF CROSS_COMPILING THEN "cross build"
    ELSE ""

\* check_extension_import as it would be if it tried to load on a cross build
skip_reason_cross_loads(ext) ==
    IF Contains(failed, ext.name) THEN "failed build"
    ELSE IF Contains(ext.extra_link_args, CarbonFlag) THEN "Carbon-based"
    ELSE IF MACOS /\ wide_process /\ Contains(ext.extra_link_args, ArchFlag) THEN "-arch"
    ELSE IF CYGWIN THEN "Cygwin-based"
    ELSE ""

\* the reason check_extension_import skips the import of ext, "" when it imports
skip_reason(ext) ==
    IF Contains(failed, ext.name) THEN "failed build"
    ELSE IF Contains(ext.extra_link_args, CarbonFlag) THEN "Carbon-based"
    ELSE IF MACOS /\ wide_process /\ Contains(ext.extra_link_args, ArchFlag) THEN "-arch"
    ELSE IF CYGWIN THEN "Cygwin-based"
    ELSE IF CROSS_COMPILING THEN "cross build"
    ELSE ""

\* the skip announcement as it would be if the Cygwin skip were silent too
skip_announcement_loud_only(ext) ==
    IF skip_reason(ext) \in {"cross build", "Cygwin-based"} THEN <<>>
    ELSE <<announce("skipping import check: " \o skip_reason(ext), ext.name)>>

\* what check_extension_import announces when it skips the import of ext:
\* nothing on a cross build
skip_announcement(ext) ==
    IF skip_reason(ext) = "cross build" THEN <<>>
    ELSE <<announce("skipping import check: " \o skip_reason(ext), ext.name)>>

\* the loop over self.extensions as it would be if it ended after one candidate
after_check_first_only(rest) == "summary"

\* where build_extensions goes after check_extension_import: to the next
\* candidate of the loop, to summary after the last
after_check(rest) == IF rest = <<>> THEN "summary" ELSE "check"

check_frame == <<extensions, missing, disabled_configure, mods_built, mods_disabled,
                 DISABLED_MODULE_LIST, LIST_MODULE_NAMES, HOST_PLATFORM,
                 MACOS_SDK_ROOT, config_vars, environ, result, args, ret,
                   self_compiler, lib_dirs, inc_dirs>>

\* check_extension_import returns without loading the module
CheckExtensionImportSkips ==
    /\ pc = "check" /\ todo # <<>>
    /\ skip_reason(Head(todo)) # ""
    /\ output' = output \o skip_announcement(Head(todo))
    /\ todo' = Tail(todo) /\ pc' = after_check(todo')
    /\ UNCHANGED <<failed, failed_on_import, fs>>
    /\ UNCHANGED check_frame

\* the module loads
CheckExtensionImportOk ==
    /\ pc = "check" /\ todo # <<>>
    /\ skip_reason(Head(todo)) = ""
    /\ todo' = Tail(todo) /\ pc' = after_check(todo')
    /\ UNCHANGED <<failed, failed_on_import, fs, output>>
    /\ UNCHANGED check_frame

\* the load raises ImportError: the artifact is renamed out of the way
CheckExtensionImportError ==
    /\ pc = "check" /\ todo # <<>>
    /\ skip_reason(Head(todo)) = ""
    /\ failed_on_import' = Append(failed_on_import, Head(todo).name)
    /\ output' = Append(output, announce("renaming since importing failed", Head(todo).name))
    /\ ~inplace
    /\ fs' = rename_failed(fs, Head(todo).name)
    /\ todo' = Tail(todo) /\ pc' = after_check(todo')
    /\ UNCHANGED failed
    /\ UNCHANGED check_frame

\* the load raises any other exception
CheckExtensionImportRaises ==
    /\ pc = "check" /\ todo # <<>>
    /\ skip_reason(Head(todo)) = ""
    /\ failed' = Append(failed, Head(todo).name)
    /\ output' = Append(output, announce("importing failed", Head(todo).name))
    /\ todo' = Tail(todo) /\ pc' = after_check(todo')
    /\ UNCHANGED <<failed_on_import, fs>>
    /\ UNCHANGED check_frame

\* summary(mods_built, mods_disabled): print the report, then raise in strict mode
Summary ==
    /\ pc = "summary"
    /\ output' = output \o summary_report
    /\ missing' = missing_as_printed
    /\ disabled_configure' = IF disabled_configure # <<>>
                             THEN three_column_list(disabled_configure)
                             ELSE disabled_configure
    /\ result' = IF summary_raises THEN "RuntimeError" ELSE "ok"
    /\ pc' = "done"
    /\ UNCHANGED <<extensions, failed, failed_on_import, mods_built, mods_disabled,
                   DISABLED_MODULE_LIST, LIST_MODULE_NAMES, HOST_PLATFORM,
                   MACOS_SDK_ROOT, config_vars, environ, fs, todo, args, ret,
                   self_compiler, lib_dirs, inc_dirs>>

(***************************************************************************)
(* The run-level specification: one run of build_extensions.               *)
(***************************************************************************)
\* the source tree and the artifacts a previous build left behind
SourceTree ==
    {<<"/", "src", "Modules", "_ssl.c">>,
     <<"/", "src", "Modules", "zlibmodule.c">>,
     <<"/", "src", "Modules", "_ctypes", "_ctypes.c">>,
     <<"/", "src", "Modules", "_ctypes", "callbacks.c">>}

PreviousArtifacts == {get_ext_fullpath(n) : n \in ModuleNames}

\* the settings of the config store the run-level model reads
RunConfig(built, shared, dis) ==
    [srcdir |-> <<"/", "src">>, SIZEOF_VOID_P |-> 8,
     MODBUILT_NAMES |-> built, MODSHARED_NAMES |-> shared, MODDISABLED_NAMES |-> dis,
     MODULE_LDFLAGS |-> [ZLIB |-> <<[switch |-> "-l", key |-> "z", eq |-> FALSE, val |-> ""]>>]]

Environs ==
    {<<>>, [PYTHONSTRICTEXTENSIONBUILD |-> "1"], [MAKEFLAGS |-> "-j"],
     [PYTHONSTRICTEXTENSIONBUILD |-> "1", MAKEFLAGS |-> "-j"]}

\* system_lib_dirs and system_include_dirs of init_inc_lib_dirs
system_lib_dirs == << <<"/", "lib64">>, <<"/", "usr", "lib64">>, <<"/", "lib">>,
                      <<"/", "usr", "lib">> >>
system_include_dirs == << <<"/", "usr", "include">> >>

\* a compiler object no directory has been added to
NoCompilerDirs == [library_dirs |-> <<>>, include_dirs |-> <<>>,
                   runtime_library_dirs |-> <<>>]

\* the search paths init_inc_lib_dirs leaves on a native build when the
\* compiler has no directories of its own
DetectedDirs ==
    /\ self_compiler = NoCompilerDirs
    /\ lib_dirs = system_lib_dirs
    /\ inc_dirs = system_include_dirs

\* the lists PyBuildExt.__init__ creates empty
InitObject ==
    /\ missing = <<>> /\ disabled_configure = <<>>
    /\ failed = <<>> /\ failed_on_import = <<>>
    /\ mods_built = <<>> /\ mods_disabled = <<>>
    /\ todo = <<>> /\ output = <<>> /\ result = "running"

Init ==
    /\ InitObject
    /\ pc = "set_srcdir"
    /\ extensions = <<>>
    /\ args = <<>> /\ ret = <<>>
    /\ self_compiler = NoCompilerDirs /\ lib_dirs = None /\ inc_dirs = None
    /\ DISABLED_MODULE_LIST = {}
    /\ HOST_PLATFORM = "linux" /\ MACOS_SDK_ROOT = <<"/">>
    /\ fs = SourceTree \cup PreviousArtifacts
    /\ \/ /\ LIST_MODULE_NAMES = FALSE
          /\ environ \in Environs
          /\ \E built \in SUBSET ModuleNames, dis \in SUBSET ModuleNames :
               \E shared \in {{}, built} :
                  config_vars = RunConfig(built, shared, dis)
       \/ /\ LIST_MODULE_NAMES = TRUE
          /\ environ = <<>>
          /\ config_vars = RunConfig({}, {}, {})
       \/ /\ LIST_MODULE_NAMES = FALSE
          /\ environ = <<>>
          /\ config_vars = [MODBUILT_NAMES |-> {}, MODSHARED_NAMES |-> {},
                            MODDISABLED_NAMES |-> {}]

Next ==
    \/ SetSrcdir
    \/ DetectAdd
    \/ DetectAddext
    \/ DetectMissing
    \/ RemoveDisabled
    \/ UpdateSourcesDepends
    \/ HandleConfiguredExtensions
    \/ ListModuleNames
    \/ BuildExtensionOk
    \/ BuildExtensionFails
    \/ CheckExtensionImportSkips
    \/ CheckExtensionImportOk
    \/ CheckExtensionImportError
    \/ CheckExtensionImportRaises
    \/ Summary

Spec == Init /\ [][Next]_vars

(***************************************************************************)
(* Properties of the run-level specification.                              *)
(***************************************************************************)
\* summary() has run and the run is over
SummaryDone == pc = "done" /\ ~LIST_MODULE_NAMES /\ config_set("srcdir")

\* the report names category title
Reported(title) ==
    \E i \in DOMAIN output : output[i].kind = "title" /\ output[i].cells = <<title>>

C2_StrictRaisesAfterReport ==
    SummaryDone =>
        /\ (strict_build /\ failed # <<>>) =>
               (result = "RuntimeError" /\ Reported("failed"))
        /\ (strict_build /\ failed_on_import # <<>>) =>
               (result = "RuntimeError" /\ Reported("failed on import"))
        /\ ~strict_build => result = "ok"

C2_Witness ==
    /\ SummaryDone /\ strict_build /\ result = "RuntimeError"
    /\ failed # <<>> /\ failed_on_import # <<>>

(***************************************************************************)
(* The reconciler on its own: update_sources_depends and then              *)
(* handle_configured_extensions applied to any registry, any Setup-file    *)
(* name sets and any set of previous artifacts.  args keeps the registry   *)
(* and the file system the two steps started from.                         *)
(***************************************************************************)
\* the registries detection can leave behind: distinct modules in any order
Registries(names) ==
    {[i \in DOMAIN order |-> Extension(order[i], module_sources(order[i]))] :
        order \in InjSeqs(names, MaxExt)}

InitReconcile ==
    /\ InitObject
    /\ DetectedDirs
    /\ pc = "update_sources_depends"
    /\ DISABLED_MODULE_LIST = {} /\ LIST_MODULE_NAMES = FALSE
    /\ HOST_PLATFORM = "linux" /\ MACOS_SDK_ROOT = <<"/">>
    /\ environ = <<>>
    /\ \E reg \in Registries(ModuleNames), previous \in SUBSET PreviousArtifacts,
          built \in SUBSET ModuleNames, shared \in SUBSET ModuleNames,
          dis \in SUBSET ModuleNames :
          /\ config_vars = RunConfig(built, shared, dis)
          /\ fs = SourceTree \cup previous
          /\ extensions = reg
          /\ args = [extensions |-> reg, fs |-> SourceTree \cup previous]
    /\ ret = <<>>

NextReconcile == UpdateSourcesDepends \/ HandleConfiguredExtensions

SpecReconcile == InitReconcile /\ [][NextReconcile]_vars

\* handle_configured_extensions has returned
Reconciled == pc \in {"build", "summary"}

\* C3: after handle_configured_extensions the compile set is the registry
\* without the candidates named in the already-built or the already-disabled
\* set, the others in their previous order, and the two returned lists hold
\* the registry's candidates named in already-built and in already-disabled.
C3_CompileSetIsRegistryMinusConfigured ==
    [][(pc = "handle_configured_extensions" /\ pc' # pc) =>
        LET built == config_vars["MODBUILT_NAMES"]
            dis == config_vars["MODDISABLED_NAMES"]
            left(ext) == ext.name \notin built /\ ext.name \notin dis
            is_built(ext) == ext.name \in built
            is_dis(ext) == ext.name \in dis
        IN  /\ extensions' = SelectSeq(extensions, left)
            /\ mods_built' = SelectSeq(extensions, is_built)
            /\ mods_disabled' = SelectSeq(extensions, is_dis)]_vars

C3_Witness ==
    /\ Reconciled
    /\ Len(args.extensions) = 3
    /\ names_of(extensions) = <<"_ctypes">>
    /\ names_of(mods_built) = <<"zlib">>
    /\ names_of(mods_disabled) = <<"_ssl", "zlib">>

\* C4: the reconciler deletes the previous artifact of module N exactly when N
\* is a registered candidate named in already-built or already-disabled, N is
\* not named in already-shared, and the artifact exists; every other file,
\* the artifacts of the other modules included, is left as it was.
C4_UnlinksExactlyStaleArtifacts ==
    Reconciled =>
        LET registered == {args.extensions[i].name : i \in DOMAIN args.extensions}
            stale == {n \in ModuleNames :
                        /\ n \in registered
                        /\ n \in config_vars["MODBUILT_NAMES"] \cup config_vars["MODDISABLED_NAMES"]
                        /\ n \notin config_vars["MODSHARED_NAMES"]
                        /\ get_ext_fullpath(n) \in args.fs}
        IN  /\ \A n \in ModuleNames :
                  (get_ext_fullpath(n) \in args.fs /\ get_ext_fullpath(n) \notin fs)
                      <=> n \in stale
            /\ fs \subseteq args.fs
            /\ \A f \in args.fs : f \notin PreviousArtifacts => f \in fs

C4_Witness ==
    /\ Reconciled
    /\ get_ext_fullpath("_ssl") \in args.fs /\ get_ext_fullpath("_ssl") \notin fs
    /\ "zlib" \in config_vars["MODBUILT_NAMES"] \cap config_vars["MODSHARED_NAMES"]
    /\ Contains(names_of(args.extensions), "zlib")
    /\ get_ext_fullpath("zlib") \in fs
    /\ get_ext_fullpath("_ctypes") \in fs

(***************************************************************************)
(* The build order: remove_disabled, update_sources_depends and            *)
(* handle_configured_extensions applied to the candidates of the detectors *)
(* registered in any order, with any list of disabled modules.             *)
(***************************************************************************)
OrderNames == ModuleNames \cup {"_dbm"}

InitOrder ==
    /\ InitObject
    /\ DetectedDirs
    /\ pc = "remove_disabled"
    /\ LIST_MODULE_NAMES = FALSE
    /\ HOST_PLATFORM = "linux" /\ MACOS_SDK_ROOT = <<"/">>
    /\ environ = <<>>
    /\ fs = SourceTree \cup PreviousArtifacts
    /\ ret = <<>>
    /\ \E reg \in Registries(OrderNames), disabled \in SUBSET OrderNames,
          built \in SUBSET OrderNames, dis \in {{}, {"zlib"}} :
          /\ DISABLED_MODULE_LIST = disabled
          /\ config_vars = RunConfig(built, {}, dis)
          /\ extensions = reg
          /\ args = [extensions |-> reg]

NextOrder == RemoveDisabled \/ UpdateSourcesDepends \/ HandleConfiguredExtensions

SpecOrder == InitOrder /\ [][NextOrder]_vars

\* C5: whatever the order in which the candidates were registered, when
\* _ctypes and another candidate reach the final compile set _ctypes is its
\* last element, and the other candidates (those not in the disabled-module
\* list) keep the relative order in which they were registered.
C5_CtypesLastOthersInOrder ==
    Reconciled =>
        LET final == names_of(extensions)
            registered == names_of(args.extensions)
            other(n) == n # "_ctypes"
            kept(n) == /\ n \notin DISABLED_MODULE_LIST
                       /\ n \notin config_vars["MODBUILT_NAMES"]
                       /\ n \notin config_vars["MODDISABLED_NAMES"]
        IN  /\ (Contains(final, "_ctypes") /\ Len(final) >= 2) =>
                   final[Len(final)] = "_ctypes"
            /\ SelectSeq(final, other) = SelectSeq(SelectSeq(registered, kept), other)
            /\ Contains(final, "_ctypes") <=>
                   (Contains(registered, "_ctypes") /\ kept("_ctypes"))

C5_Witness ==
    /\ Reconciled
    /\ Len(args.extensions) = 3 /\ args.extensions[1].name = "_ctypes"
    /\ Len(extensions) = 3 /\ extensions[3].name = "_ctypes"
    /\ extensions[1].name = args.extensions[2].name

(***************************************************************************)
(* The Path Search Engine on its own: find_file and find_library_file      *)
(* applied to any directory lists, file system, platform and SDK root.     *)
(***************************************************************************)
FindDirs == {<<"/", "usr", "lib">>, <<"/", "usr", "local", "lib">>,
             <<"/", "opt", "lib">>, <<"/", "opt", "lib", "">>}

SdkRoots == {<<"/">>, <<"/", "SDK">>}

\* the places a file of the search can be in
FindPlaces == {<<"/", "usr", "lib">>, <<"/", "usr", "local", "lib">>, <<"/", "opt", "lib">>,
               <<"/", "SDK", "usr", "lib">>, <<"/", "SDK", "usr", "local", "lib">>}

FindName == <<"libz.so">>

\* what the toolchain's own find_library_file can answer
CompilerAnswers ==
    {[kind |-> "None", path |-> <<>>]} \cup
    {[kind |-> "file", path |-> d \o FindName] : d \in FindPlaces \cup {<<"/", "lib">>}}

InitFind ==
    /\ InitObject
    /\ DetectedDirs
    /\ pc = "call"
    /\ extensions = <<>>
    /\ DISABLED_MODULE_LIST = {} /\ LIST_MODULE_NAMES = FALSE
    /\ config_vars = <<>> /\ environ = <<>>
    /\ ret = NotFound
    /\ \E platform \in {"linux", "darwin"} :
          /\ HOST_PLATFORM = platform
          /\ MACOS_SDK_ROOT \in IF platform = "darwin" THEN SdkRoots ELSE {<<"/">>}
    /\ \E std_dirs \in SeqsUpTo(FindDirs, MaxDirs), paths \in SeqsUpTo(FindDirs, MaxDirs) :
          \/ \E places \in SUBSET FindPlaces :
                /\ fs = {d \o FindName : d \in places}
                /\ args = [fn |-> "find_file", filename |-> FindName,
                           std_dirs |-> std_dirs, paths |-> paths,
                           compiler |-> [kind |-> "None", path |-> <<>>]]
          \/ \E answer \in CompilerAnswers :
                /\ fs = {}
                /\ args = [fn |-> "find_library_file", filename |-> <<"z">>,
                           std_dirs |-> std_dirs, paths |-> paths,
                           compiler |-> answer]

FindFile ==
    /\ pc = "call" /\ args.fn = "find_file"
    /\ ret' = find_file(args.filename, args.std_dirs, args.paths)
    /\ pc' = "returned"
    /\ UNCHANGED <<extensions, missing, disabled_configure, failed, failed_on_import,
                   mods_built, mods_disabled, DISABLED_MODULE_LIST, LIST_MODULE_NAMES,
                   HOST_PLATFORM, MACOS_SDK_ROOT, config_vars, environ, fs, todo,
                   output, result, args,
                   self_compiler, lib_dirs, inc_dirs>>

FindLibraryFile ==
    /\ pc = "call" /\ args.fn = "find_library_file"
    /\ ret' = find_library_file(args.compiler, args.filename, args.std_dirs, args.paths)
    /\ pc' = "returned"
    /\ UNCHANGED <<extensions, missing, disabled_configure, failed, failed_on_import,
                   mods_built, mods_disabled, DISABLED_MODULE_LIST, LIST_MODULE_NAMES,
                   HOST_PLATFORM, MACOS_SDK_ROOT, config_vars, environ, fs, todo,
                   output, result, args,
                   self_compiler, lib_dirs, inc_dirs>>

NextFind == FindFile \/ FindLibraryFile

SpecFind == InitFind /\ [][NextFind]_vars

\* the components of a directory without its trailing separators
Stripped(d) == LET named(c) == c # "" IN SelectSeq(d, named)

\* the directory a search looks in for entry d: under the SDK root on macOS
\* when d is laid out like a part of the SDK
Searched(d) ==
    IF HOST_PLATFORM = "darwin" /\ is_macosx_sdk_path(d)
    THEN Stripped(MACOS_SDK_ROOT \o Tail(d))
    ELSE Stripped(d)

\* the first index of seq at which P holds, 0 when there is none
FirstIndex(seq, P(_)) ==
    IF \E i \in DOMAIN seq : P(seq[i])
    THEN CHOOSE i \in DOMAIN seq : P(seq[i]) /\ \A j \in 1..(i - 1) : ~P(seq[j])
    ELSE 0

\* C6: find_file returns the empty list when the file exists under a std_dirs
\* entry (also when it exists under a paths entry), otherwise the one-element
\* list of the first paths entry under which it exists, otherwise None;
\* existence is tested under the SDK root for SDK-layout directories on
\* macOS, and the entry returned is the entry as it stands in paths.
C6_FindFileStandardFirst ==
    (pc = "returned" /\ args.fn = "find_file") =>
        LET has(d) == (Searched(d) \o args.filename) \in fs
            in_std == FirstIndex(args.std_dirs, has)
            in_paths == FirstIndex(args.paths, has)
        IN  /\ in_std # 0 => ret = [kind |-> "list", dirs |-> <<>>]
            /\ (in_std = 0 /\ in_paths # 0) =>
                   ret = [kind |-> "list", dirs |-> <<args.paths[in_paths]>>]
            /\ (in_std = 0 /\ in_paths = 0) => ret.kind = "None"

C6_Witness ==
    /\ pc = "returned" /\ args.fn = "find_file"
    /\ HOST_PLATFORM = "darwin" /\ MACOS_SDK_ROOT = <<"/", "SDK">>
    /\ args.std_dirs = <<>>
    /\ Len(args.paths) = 2 /\ args.paths[2] = <<"/", "usr", "lib">>
    /\ <<"/", "usr", "lib", "libz.so">> \notin fs
    /\ ret = [kind |-> "list", dirs |-> << <<"/", "usr", "lib">> >>]
\* C7: find_library_file returns None when the toolchain finds nothing;
\* otherwise the empty list when the directory of the match equals a std_dirs
\* entry (also when a paths entry equals it too), otherwise the one-element
\* list of the first paths entry equal to it (without trailing separators);
\* the internal error is raised exactly when no entry of either list equals
\* the directory of the match.  Entries are compared without trailing
\* separators, as they stand or moved under the SDK root.
C7_FindLibraryFileClassifies ==
    (pc = "returned" /\ args.fn = "find_library_file") =>
        IF args.compiler.kind = "None" THEN ret.kind = "None"
        ELSE LET found == SubSeq(args.compiler.path, 1, Len(args.compiler.path) - 1)
                 equal(d) == Stripped(d) = found \/ Searched(Stripped(d)) = found
                 in_std == FirstIndex(args.std_dirs, equal)
                 in_paths == FirstIndex(args.paths, equal)
             IN  /\ in_std # 0 => ret = [kind |-> "list", dirs |-> <<>>]
                 /\ (in_std = 0 /\ in_paths # 0) =>
                        ret = [kind |-> "list", dirs |-> <<Stripped(args.paths[in_paths])>>]
                 /\ (ret.kind = "AssertionError") <=> (in_std = 0 /\ in_paths = 0)

C7_Witness ==
    /\ pc = "returned" /\ args.fn = "find_library_file"
    /\ HOST_PLATFORM = "darwin" /\ MACOS_SDK_ROOT = <<"/", "SDK">>
    /\ args.compiler.path = <<"/", "SDK", "usr", "lib", "libz.so">>
    /\ \E i \in DOMAIN args.std_dirs : args.std_dirs[i] = <<"/", "usr", "lib">>
    /\ \E i \in DOMAIN args.paths : args.paths[i] = <<"/", "usr", "lib">>
    /\ ret = [kind |-> "list", dirs |-> <<>>]
(***************************************************************************)
(* update_sources_depends on its own: any source tree, source directory,   *)
(* platform and SDK root.                                                  *)
(***************************************************************************)
SourceDirs == {<<"/", "src">>, <<"/", "usr", "src">>}

\* the references a registry of the model and its Makefile dependencies name
SourceRefs == {<<"zlibmodule.c">>, <<"_ctypes", "_ctypes.c">>, <<"zutil.h">>}

\* the files that can exist when the source directory is srcdir
SourceFiles(srcdir) ==
    {srcdir \o <<"Modules">> \o ref : ref \in SourceRefs}
        \cup {getcwd \o <<"zlibmodule.c">>}
        \cup (IF is_macosx_sdk_path(srcdir)
              THEN {<<"/", "SDK">> \o Tail(srcdir) \o <<"Modules">> \o ref : ref \in SourceRefs}
              ELSE {})

\* MODULE_ZLIB_DEPS as the Makefile gives it, with a line continuation
ModuleDeps == {<<>>, [ZLIB |-> << <<"\\">>, <<"zutil.h">> >>]}

InitSources ==
    /\ InitObject
    /\ DetectedDirs
    /\ pc = "update_sources_depends"
    /\ DISABLED_MODULE_LIST = {} /\ LIST_MODULE_NAMES = FALSE
    /\ environ = <<>>
    /\ ret = <<>>
    /\ \E platform \in {"linux", "darwin"} :
          /\ HOST_PLATFORM = platform
          /\ MACOS_SDK_ROOT \in IF platform = "darwin" THEN SdkRoots ELSE {<<"/">>}
    /\ \E reg \in Registries({"zlib", "_ctypes"}), srcdir \in SourceDirs, deps \in ModuleDeps :
          \E files \in SUBSET SourceFiles(srcdir) :
              /\ config_vars = [srcdir |-> srcdir, MODULE_DEPS |-> deps]
              /\ fs = files
              /\ extensions = reg
              /\ args = [extensions |-> reg]

NextSources == UpdateSourcesDepends

SpecSources == InitSources /\ [][NextSources]_vars

\* the known source roots, in the order they are searched
SourceRoots == <<config_vars["srcdir"] \o <<"Modules">>, <<"/", "build">> >>

\* what the claim makes of reference ref: the file under the first root that
\* has it, or ref itself
Resolved(ref) ==
    LET has(root) == (root \o ref) \in fs
        at == FirstIndex(SourceRoots, has)
    IN  IF at = 0 THEN ref ELSE SourceRoots[at] \o ref

\* the dependency references of ext: its own and its Makefile dependencies
DependsRefs(ext) ==
    LET real(dep) == dep # <<"\\">>
    IN  ext.depends \o
        (IF "MODULE_DEPS" \in DOMAIN config_vars
            /\ upper(ext.name) \in DOMAIN config_vars["MODULE_DEPS"]
         THEN SelectSeq(config_vars["MODULE_DEPS"][upper(ext.name)], real)
         ELSE <<>>)

\* C8: after update_sources_depends every source and dependency reference
\* that names a file existing under a source root (srcdir/Modules, then the
\* build directory) is the absolute path of the file under the first root
\* that has it, every other reference is as it was, and the number and
\* order of the sources is unchanged.
C8_ReferencesResolvedUnderRoots ==
    pc = "handle_configured_extensions" =>
        /\ Len(extensions) = Len(args.extensions)
        /\ \A i \in DOMAIN extensions :
              LET before == args.extensions[i]
                  refs == DependsRefs(before)
              IN  /\ Len(extensions[i].sources) = Len(before.sources)
                  /\ \A j \in DOMAIN before.sources :
                         extensions[i].sources[j] = Resolved(before.sources[j])
                  /\ Len(extensions[i].depends) >= Len(refs)
                  /\ \A j \in DOMAIN refs : extensions[i].depends[j] = Resolved(refs[j])

\* the same, on the hosts where find_file looks where it is told to: any
\* host but macOS, and macOS with the source directory outside the SDK layout
\* or with the SDK root at "/"
C8_ResolvedWhereNoSdkApplies ==
    (~(HOST_PLATFORM = "darwin" /\ MACOS_SDK_ROOT # <<"/">>
        /\ is_macosx_sdk_path(config_vars["srcdir"])))
        => C8_ReferencesResolvedUnderRoots

\* a source that exists under srcdir/Modules has been rewritten, and one that
\* exists nowhere has been left bare
C8_Witness ==
    /\ pc = "handle_configured_extensions"
    /\ \E i \in DOMAIN extensions :
          /\ extensions[i].name = "zlib"
          /\ extensions[i].sources = << <<"/", "usr", "src", "Modules", "zlibmodule.c">> >>
          /\ extensions[i].depends[1] = <<"zutil.h">>
    /\ HOST_PLATFORM = "darwin" /\ MACOS_SDK_ROOT = <<"/">>
(***************************************************************************)
(* detect_dbm_gdbm.  An argument of CONFIG_ARGS is a record: name is the    *)
(* text before the first "=", eq says whether there is an "=", order is    *)
(* the text after it split at ":", quoted says whether the argument is     *)
(* wrapped in single quotes.                                               *)
(***************************************************************************)
\* the longest backend order given to --with-dbmliborder
MaxOrder == 2

\* arg.strip("'")
strip_quotes(arg) == [arg EXCEPT !.quoted = FALSE]

\* arg.startswith('--with-dbmliborder='), of an argument without quotes
is_dbm_arg(arg) == ~arg.quoted /\ arg.name = "--with-dbmliborder" /\ arg.eq

\* dbm_order, from CONFIG_ARGS; ['gdbm'] where the _dbm block is skipped
dbm_order ==
    IF CYGWIN THEN <<"gdbm">>
    ELSE LET config_args == [i \in DOMAIN config_vars["CONFIG_ARGS"] |->
                                strip_quotes(config_vars["CONFIG_ARGS"][i])]
             dbm_args == SelectSeq(config_args, is_dbm_arg)
         IN  IF dbm_args # <<>> THEN dbm_args[Len(dbm_args)].order
             ELSE <<"ndbm", "gdbm", "bdb">>

\* whether the loop over dbm_order builds dbmext for cand
dbm_cand_builds(cand) ==
    CASE cand = "ndbm" -> config_set("HAVE_NDBM_H")
      [] cand = "gdbm" -> config_set("HAVE_LIBGDBM_COMPAT")
                          /\ (config_set("HAVE_GDBM_NDBM_H")
                              \/ config_set("HAVE_GDBM_DASH_NDBM_H"))
      [] cand = "bdb" -> config_set("HAVE_LIBDB")
      [] OTHER -> FALSE

\* the Extension the loop builds for cand
dbm_extension(cand) ==
    CASE cand = "ndbm" ->
           [Extension("_dbm", << <<"_dbmmodule.c">> >>) EXCEPT
              !.define_macros = << <<"USE_NDBM", None>> >>,
              !.libraries = IF config_set("HAVE_LIBNDBM") THEN <<"ndbm">>
                            ELSE IF config_set("HAVE_LIBGDBM_COMPAT") THEN <<"gdbm_compat">>
                            ELSE <<>>]
      [] cand = "gdbm" ->
           [Extension("_dbm", << <<"_dbmmodule.c">> >>) EXCEPT
              !.define_macros = << <<"USE_GDBM_COMPAT", None>> >>,
              !.libraries = <<"gdbm_compat">>]
      [] OTHER ->
           [Extension("_dbm", << <<"_dbmmodule.c">> >>) EXCEPT
              !.define_macros = << <<"USE_BERKDB", None>> >>,
              !.libraries = <<"db">>]

\* the loop as it would be without its break statements: the last backend
\* that can be built wins
dbmext_last_wins(order) ==
    IF \E i \in DOMAIN order : dbm_cand_builds(order[i])
    THEN LET last == CHOOSE i \in DOMAIN order :
                 /\ dbm_cand_builds(order[i])
                 /\ \A j \in (i + 1)..Len(order) : ~dbm_cand_builds(order[j])
         IN  <<dbm_extension(order[last])>>
    ELSE <<>>

\* dbmext after the loop: <<>> for None, else the one Extension
dbmext(order) ==
    IF \E i \in DOMAIN order : dbm_cand_builds(order[i])
    THEN LET first == CHOOSE i \in DOMAIN order :
                 /\ dbm_cand_builds(order[i])
                 /\ \A j \in 1..(i - 1) : ~dbm_cand_builds(order[j])
         IN  <<dbm_extension(order[first])>>
    ELSE <<>>

\* the registry after detect_dbm_gdbm
detect_dbm_gdbm(reg) ==
    LET with_dbm ==
            IF CYGWIN THEN reg
            ELSE IF dbmext(dbm_order) # <<>>
            THEN [reg EXCEPT !.extensions = @ \o dbmext(dbm_order)]
            ELSE [reg EXCEPT !.missing = Append(@, "_dbm")]
    IN  IF Contains(dbm_order, "gdbm") /\ config_set("HAVE_LIBGDBM")
        THEN [with_dbm EXCEPT !.extensions =
                 Append(@, [Extension("_gdbm", << <<"_gdbmmodule.c">> >>) EXCEPT
                               !.libraries = <<"gdbm">>])]
        ELSE [with_dbm EXCEPT !.missing = Append(@, "_gdbm")]

DetectDbmGdbm ==
    /\ pc = "detect_dbm_gdbm"
    /\ LET after == detect_dbm_gdbm(registry)
       IN  /\ extensions' = after.extensions
           /\ missing' = after.missing
           /\ disabled_configure' = after.disabled_configure
    /\ pc' = "detected"
    /\ UNCHANGED <<todo>>
    /\ UNCHANGED detect_frame

\* the configure results detect_dbm_gdbm reads
DbmHaves == {"HAVE_NDBM_H", "HAVE_GDBM_NDBM_H", "HAVE_GDBM_DASH_NDBM_H", "HAVE_LIBNDBM",
             "HAVE_LIBGDBM", "HAVE_LIBGDBM_COMPAT", "HAVE_LIBDB"}

DbmBackends == {"ndbm", "gdbm", "bdb", "qdbm"}

DbmOrders == SeqsUpTo(DbmBackends, MaxOrder) \ {<<>>}

dbm_arg(order, quoted) ==
    [name |-> "--with-dbmliborder", eq |-> TRUE, order |-> order, quoted |-> quoted]

other_arg == [name |-> "--prefix", eq |-> TRUE, order |-> <<"/usr">>, quoted |-> TRUE]

\* --with-dbmliborder without a value: not an order
bare_arg == [name |-> "--with-dbmliborder", eq |-> FALSE, order |-> <<>>, quoted |-> FALSE]

\* the CONFIG_ARGS of the model: no order, one order, or two of which the
\* last counts
ConfigArgs ==
    {<<>>, <<other_arg>>, <<bare_arg>>}
        \cup {<<dbm_arg(o, FALSE)>> : o \in DbmOrders}
        \cup {<<other_arg, dbm_arg(o, TRUE)>> : o \in DbmOrders}
        \cup {<<dbm_arg(<<"bdb">>, FALSE), dbm_arg(o, FALSE)>> : o \in DbmOrders}
        \cup {<<dbm_arg(o, TRUE), bare_arg>> : o \in DbmOrders}

InitDbm ==
    /\ InitObject
    /\ DetectedDirs
    /\ pc = "detect_dbm_gdbm"
    /\ extensions = <<>>
    /\ DISABLED_MODULE_LIST = {} /\ LIST_MODULE_NAMES = FALSE
    /\ HOST_PLATFORM \in {"linux", "cygwin"} /\ MACOS_SDK_ROOT = <<"/">>
    /\ environ = <<>>
    /\ fs = {}
    /\ args = <<>> /\ ret = <<>>
    /\ \E haves \in SUBSET DbmHaves, config_args \in ConfigArgs :
          config_vars = [n \in haves \cup {"CONFIG_ARGS"} |->
                            IF n = "CONFIG_ARGS" THEN config_args ELSE <<>>]

NextDbm == DetectDbmGdbm

SpecDbm == InitDbm /\ [][NextDbm]_vars

\* the backend order configure was given: the value of the last
\* --with-dbmliborder=... argument, or ndbm, gdbm, bdb
ConfiguredOrder ==
    LET given == config_vars["CONFIG_ARGS"]
        at == {i \in DOMAIN given : given[i].name = "--with-dbmliborder" /\ given[i].eq}
    IN  IF at = {} THEN <<"ndbm", "gdbm", "bdb">>
        ELSE given[CHOOSE i \in at : \A j \in at : j <= i].order

\* whether the headers and libraries backend needs are present
PrerequisitesPresent(backend) ==
    \/ backend = "ndbm" /\ "HAVE_NDBM_H" \in DOMAIN config_vars
    \/ backend = "gdbm" /\ "HAVE_LIBGDBM_COMPAT" \in DOMAIN config_vars
          /\ {"HAVE_GDBM_NDBM_H", "HAVE_GDBM_DASH_NDBM_H"} \cap DOMAIN config_vars # {}
    \/ backend = "bdb" /\ "HAVE_LIBDB" \in DOMAIN config_vars

\* the macro that selects a backend in _dbmmodule.c
BackendMacro(backend) ==
    CASE backend = "ndbm" -> "USE_NDBM"
      [] backend = "gdbm" -> "USE_GDBM_COMPAT"
      [] backend = "bdb" -> "USE_BERKDB"
      [] OTHER -> ""

\* C9: on a host other than Cygwin, detect_dbm_gdbm registers at most one
\* _dbm candidate: the one for the first backend of the configured order
\* (default ndbm, gdbm, bdb) whose prerequisites are present, and none for a
\* later backend; when no backend of the order has its prerequisites, _dbm
\* goes on the missing list and no _dbm candidate is registered.
C9_DbmFirstSatisfiedBackend ==
    (pc = "detected" /\ HOST_PLATFORM # "cygwin") =>
        LET is_dbm(ext) == ext.name = "_dbm"
            is_name(n) == n = "_dbm"
            dbms == SelectSeq(extensions, is_dbm)
            first == FirstIndex(ConfiguredOrder, PrerequisitesPresent)
        IN  /\ Len(dbms) <= 1
            /\ first # 0 =>
                  /\ Len(dbms) = 1
                  /\ dbms[1].define_macros = << <<BackendMacro(ConfiguredOrder[first]), None>> >>
                  /\ ~Contains(missing, "_dbm")
            /\ first = 0 =>
                  /\ dbms = <<>>
                  /\ Len(SelectSeq(missing, is_name)) = 1

\* bdb comes first but lacks its library; ndbm comes second and is built,
\* although gdbm could be built too
C9_Witness ==
    /\ pc = "detected" /\ HOST_PLATFORM = "linux"
    /\ ConfiguredOrder = <<"bdb", "ndbm">>
    /\ "HAVE_LIBDB" \notin DOMAIN config_vars
    /\ PrerequisitesPresent("gdbm")
    /\ \E i \in DOMAIN extensions :
          /\ extensions[i].name = "_dbm"
          /\ extensions[i].define_macros = << <<"USE_NDBM", None>> >>
(***************************************************************************)
(* detect_openssl_hashlib.  The value of an OPENSSL_* variable is the       *)
(* sequence of its blank-separated tokens; a token is a flag-token record, *)
(* its text the switch followed by the key.  The key of a -I or -L token   *)
(* is a path, the key of any other token a string.                         *)
(***************************************************************************)
flag(switch, key) == [switch |-> switch, key |-> key, eq |-> FALSE, val |-> ""]

\* the text of a token that does not start with the separator
token_text(token) == IF token.switch = "" THEN token.key ELSE token.switch \o token.key

\* value.split(' ' + sep) of ' ' + value: the words of each piece, a new piece
\* starting at every token that starts with sep
RECURSIVE split_pieces(_, _, _, _)
split_pieces(tokens, sep, current, done) ==
    IF tokens = <<>> THEN Append(done, current)
    ELSE LET token == Head(tokens)
         IN  IF token.switch = sep
             THEN split_pieces(Tail(tokens), sep,
                               IF Len(token.key) = 0 THEN <<>> ELSE <<token.key>>,
                               Append(done, current))
             ELSE split_pieces(Tail(tokens), sep,
                               IF Len(token_text(token)) = 0 THEN current
                               ELSE Append(current, token_text(token)),
                               done)

\* the words of a piece put together again, one blank between them
RECURSIVE piece_text(_)
piece_text(words) ==
    IF Len(words) = 1 THEN words[1]
    ELSE words[1] \o " " \o piece_text(Tail(words))

\* split_var(name, sep) of detect_openssl_hashlib
split_var(name, sep) ==
    IF ~config_set(name) \/ config_vars[name] = <<>> THEN <<>>
    ELSE LET filled(words) == words # <<>>
             pieces == SelectSeq(split_pieces(config_vars[name], sep, <<>>, <<>>), filled)
         IN  [i \in DOMAIN pieces |-> piece_text(pieces[i])]

\* the extra_link_args of the static OpenSSL build
RECURSIVE static_link_args(_)
static_link_args(libs) ==
    IF libs = <<>> THEN <<>>
    ELSE <<"-l:lib" \o Head(libs) \o ".a", "-Wl,--exclude-libs,lib" \o Head(libs) \o ".a">>
             \o static_link_args(Tail(libs))

\* the keyword arguments both OpenSSL extensions are made with
openssl_extension(name, sources) ==
    LET openssl_libdirs == split_var("OPENSSL_LDFLAGS", "-L")
        openssl_libs == split_var("OPENSSL_LIBS", "-l")
        static == "PY_UNSUPPORTED_OPENSSL_BUILD" \in DOMAIN environ
                      /\ environ["PY_UNSUPPORTED_OPENSSL_BUILD"] = "static"
    IN  [Extension(name, sources) EXCEPT
           !.include_dirs = split_var("OPENSSL_INCLUDES", "-I"),
           !.library_dirs = openssl_libdirs,
           !.libraries = IF static THEN <<"z">> ELSE openssl_libs,
           !.runtime_library_dirs =
               IF ~config_set("OPENSSL_RPATH") \/ config_vars["OPENSSL_RPATH"] = <<>>
               THEN <<>>
               ELSE IF config_vars["OPENSSL_RPATH"] = <<"auto">> THEN openssl_libdirs
               ELSE <<config_vars["OPENSSL_RPATH"]>>,
           !.extra_link_args = IF static THEN static_link_args(openssl_libs) ELSE <<>>]

\* detect_openssl_hashlib as it would be if a missing header cost only _ssl
detect_openssl_hashlib_ssl_only(reg) ==
    IF split_var("OPENSSL_LIBS", "-l") = <<>>
    THEN [reg EXCEPT !.missing = @ \o <<"_ssl", "_hashlib">>]
    ELSE IF find_file(<<"openssl", "ssl.h">>, inc_dirs,
                      split_var("OPENSSL_INCLUDES", "-I")).kind = "None"
    THEN [reg EXCEPT !.missing = @ \o <<"_ssl">>,
                     !.extensions = @ \o <<openssl_extension("_hashlib", << <<"_hashopenssl.c">> >>)>>]
    ELSE [reg EXCEPT !.extensions =
             @ \o <<openssl_extension("_ssl", << <<"_ssl.c">> >>),
                    openssl_extension("_hashlib", << <<"_hashopenssl.c">> >>)>>]

\* the registry after detect_openssl_hashlib
detect_openssl_hashlib(reg) ==
    IF split_var("OPENSSL_LIBS", "-l") = <<>>
    THEN [reg EXCEPT !.missing = @ \o <<"_ssl", "_hashlib">>]
    ELSE IF find_file(<<"openssl", "ssl.h">>, inc_dirs,
                      split_var("OPENSSL_INCLUDES", "-I")).kind = "None"
    THEN [reg EXCEPT !.missing = @ \o <<"_ssl", "_hashlib">>]
    ELSE [reg EXCEPT !.extensions =
             @ \o <<openssl_extension("_ssl", << <<"_ssl.c">> >>),
                    openssl_extension("_hashlib", << <<"_hashopenssl.c">> >>)>>]

DetectOpensslHashlib ==
    /\ pc = "detect_openssl_hashlib"
    /\ LET after == detect_openssl_hashlib(registry)
       IN  /\ extensions' = after.extensions
           /\ missing' = after.missing
           /\ disabled_configure' = after.disabled_configure
           /\ ret' = IF after.missing # missing THEN <<None, None>> ELSE None
    /\ pc' = "detected"
    /\ UNCHANGED <<failed, failed_on_import, mods_built, mods_disabled,
                   DISABLED_MODULE_LIST, LIST_MODULE_NAMES, HOST_PLATFORM,
                   MACOS_SDK_ROOT, config_vars, environ, fs, todo, output, result, args,
                   self_compiler, lib_dirs, inc_dirs>>
\* a variable of the config store with a value, and one without
Given(values) == {[set |-> TRUE, value |-> v] : v \in values}
NotGiven == [set |-> FALSE, value |-> <<>>]

\* the values configure leaves in OPENSSL_LIBS: an empty or blank value, a
\* lone -l, libraries, and stray tokens
OpensslLibsValues ==
    {NotGiven} \cup
    Given({<<>>, <<flag("", "")>>, <<flag("-l", "")>>,
           <<flag("-l", "ssl"), flag("-l", "crypto")>>,
           <<flag("-p", "thread"), flag("-l", "ssl")>>,
           <<flag("-l", "ssl"), flag("", "extra")>>,
           <<flag("", "ssl")>>})

OpensslIncludesValues ==
    {NotGiven} \cup
    Given({<<flag("-I", <<"/", "opt", "include">>)>>,
           <<flag("-I", <<"/", "usr", "include">>), flag("-I", <<"/", "opt", "include">>)>>})

OpensslLdflagsValues == {NotGiven} \cup Given({<<flag("-L", <<"/", "opt", "lib">>)>>})

OpensslRpathValues == {NotGiven} \cup Given({<<>>, <<"auto">>, <<"/", "opt", "lib">>})

\* where openssl/ssl.h can be
OpensslHeaders ==
    {d \o <<"openssl", "ssl.h">> :
        d \in {<<"/", "usr", "include">>, <<"/", "opt", "include">>,
               <<"/", "SDK", "usr", "include">>}}

\* the config store with the variables that have a value
openssl_config(libs, includes, ldflags, rpath) ==
    LET given == [OPENSSL_LIBS |-> libs, OPENSSL_INCLUDES |-> includes,
                  OPENSSL_LDFLAGS |-> ldflags, OPENSSL_RPATH |-> rpath]
    IN  [n \in {m \in DOMAIN given : given[m].set} |-> given[n].value]

InitSsl ==
    /\ InitObject
    /\ pc = "detect_openssl_hashlib"
    /\ extensions = <<>>
    /\ DISABLED_MODULE_LIST = {} /\ LIST_MODULE_NAMES = FALSE
    /\ ret = <<>>
    /\ \E platform \in {"linux", "darwin"} :
          /\ HOST_PLATFORM = platform
          /\ MACOS_SDK_ROOT = IF platform = "darwin" THEN <<"/", "SDK">> ELSE <<"/">>
    /\ environ \in {<<>>, [PY_UNSUPPORTED_OPENSSL_BUILD |-> "static"]}
    /\ fs \in SUBSET OpensslHeaders
    /\ args = <<>>
    /\ self_compiler = NoCompilerDirs /\ lib_dirs = system_lib_dirs
    /\ inc_dirs \in {<<>>, system_include_dirs}
    /\ \E libs \in OpensslLibsValues, includes \in OpensslIncludesValues,
          ldflags \in OpensslLdflagsValues, rpath \in OpensslRpathValues :
          config_vars = openssl_config(libs, includes, ldflags, rpath)

NextSsl == DetectOpensslHashlib

SpecSsl == InitSsl /\ [][NextSsl]_vars

\* the OpenSSL link-library setting names no library: it has no value, or
\* nothing in it but blanks and lone -l switches
NoOpensslLibrary ==
    \/ "OPENSSL_LIBS" \notin DOMAIN config_vars
    \/ \A i \in DOMAIN config_vars["OPENSSL_LIBS"] :
          /\ config_vars["OPENSSL_LIBS"][i].switch \in {"", "-l"}
          /\ config_vars["OPENSSL_LIBS"][i].key = ""

\* openssl/ssl.h is under no directory of self.inc_dirs and under no -I
\* directory of OPENSSL_INCLUDES
NoOpensslHeader ==
    LET given == IF "OPENSSL_INCLUDES" \in DOMAIN config_vars
                 THEN {config_vars["OPENSSL_INCLUDES"][i].key :
                          i \in DOMAIN config_vars["OPENSSL_INCLUDES"]}
                 ELSE {}
    IN  \A d \in Range(inc_dirs) \cup given :
            (Searched(d) \o <<"openssl", "ssl.h">>) \notin fs

IsRegistered(name) == \E i \in DOMAIN extensions : extensions[i].name = name

\* C10: after detect_openssl_hashlib, _ssl and _hashlib are both registered
\* and neither is missing, or both are missing and neither is registered;
\* both are missing whenever the OpenSSL link-library setting yields no
\* library or openssl/ssl.h is not found.
C10_SslAndHashlibShareOutcome ==
    pc = "detected" =>
        /\ \/ /\ IsRegistered("_ssl") /\ IsRegistered("_hashlib")
              /\ ~Contains(missing, "_ssl") /\ ~Contains(missing, "_hashlib")
           \/ /\ Contains(missing, "_ssl") /\ Contains(missing, "_hashlib")
              /\ ~IsRegistered("_ssl") /\ ~IsRegistered("_hashlib")
        /\ (NoOpensslLibrary \/ NoOpensslHeader) =>
               (Contains(missing, "_ssl") /\ Contains(missing, "_hashlib"))
        /\ ~(NoOpensslLibrary \/ NoOpensslHeader) =>
               (IsRegistered("_ssl") /\ IsRegistered("_hashlib"))

\* libraries are configured but the header is nowhere: both are missing
C10_Witness ==
    /\ pc = "detected"
    /\ ~NoOpensslLibrary /\ NoOpensslHeader
    /\ missing = <<"_ssl", "_hashlib">>
    /\ extensions = <<>>
(***************************************************************************)
(* Properties of the report and of the import check (run-level).           *)
(***************************************************************************)
\* the report holds the TLS warning block
SslWarned == \E i \in DOMAIN output : output[i].kind = "ssl_warning"

\* C11: summary() prints the TLS warning block if and only if "_ssl" is an
\* element of the missing list (as print_three_column has left it), of the
\* build-failed list or of the import-failed list.
C11_SslWarningIffSslNotBuilt ==
    SummaryDone =>
        (SslWarned <=> (Contains(missing, "_ssl") \/ Contains(failed, "_ssl")
                            \/ Contains(failed_on_import, "_ssl")))

\* _ssl was built but could not be imported, and nothing is missing
C11_Witness ==
    /\ SummaryDone /\ SslWarned
    /\ Contains(failed_on_import, "_ssl")
    /\ missing = <<>> /\ failed = <<>>
(***************************************************************************)
(* check_extension_import on its own: one built candidate, any failure     *)
(* lists, link flags, host, process width and build kind, with or without  *)
(* a quarantine file of an earlier run.  args keeps the file system the    *)
(* check started from.                                                     *)
(***************************************************************************)
ImportNames == {"_ssl", "zlib"}

LinkArgs == {<<>>, <<CarbonFlag>>, <<ArchFlag>>}

\* the candidate check_extension_import is handed
ImportCandidate(name, link_args) ==
    [Extension(name, module_sources(name)) EXCEPT !.extra_link_args = link_args]

InitImport ==
    /\ DetectedDirs
    /\ pc = "check"
    /\ DISABLED_MODULE_LIST = {} /\ LIST_MODULE_NAMES = FALSE
    /\ HOST_PLATFORM \in {"linux", "darwin", "cygwin"} /\ MACOS_SDK_ROOT = <<"/">>
    /\ environ \in {<<>>, [_PYTHON_HOST_PLATFORM |-> "linux-arm"]}
    /\ config_vars \in {[srcdir |-> <<"/", "src">>],
                        [srcdir |-> <<"/", "src">>, SIZEOF_VOID_P |-> 8]}
    /\ ret = <<>>
    /\ missing = <<>> /\ disabled_configure = <<>>
    /\ mods_built = <<>> /\ mods_disabled = <<>>
    /\ failed_on_import = <<>>
    /\ output = <<>> /\ result = "running"
    /\ \E name \in ImportNames, link_args \in LinkArgs,
          build_failed \in InjSeqs(ImportNames, 2), quarantined \in BOOLEAN :
          LET ext == ImportCandidate(name, link_args)
              files == (IF Contains(build_failed, name) THEN {} ELSE {get_ext_fullpath(name)})
                           \cup (IF quarantined THEN {failed_filename(name)} ELSE {})
          IN  /\ extensions = <<ext>> /\ todo = <<ext>>
              /\ failed = build_failed
              /\ fs = files
              /\ args = [fs |-> files]

NextImport ==
    \/ CheckExtensionImportSkips
    \/ CheckExtensionImportOk
    \/ CheckExtensionImportError
    \/ CheckExtensionImportRaises

SpecImport == InitImport /\ [][NextImport]_vars

\* check_extension_import is about to run on the head of todo
Checking == pc = "check" /\ todo # <<>>

\* the call is one that loads the artifact
Loads == CheckExtensionImportOk \/ CheckExtensionImportError \/ CheckExtensionImportRaises

\* the known-unreliable conditions under which the import of ext is skipped
AlreadyFailed(ext) == \E i \in DOMAIN failed : failed[i] = ext.name
LinksCarbon(ext) == \E i \in DOMAIN ext.extra_link_args : ext.extra_link_args[i] = CarbonFlag
ExplicitArch(ext) ==
    /\ HOST_PLATFORM = "darwin"
    /\ "SIZEOF_VOID_P" \in DOMAIN config_vars /\ config_vars["SIZEOF_VOID_P"] = 8
    /\ \E i \in DOMAIN ext.extra_link_args : ext.extra_link_args[i] = ArchFlag
OnCygwin == HOST_PLATFORM = "cygwin"
CrossBuild == "_PYTHON_HOST_PLATFORM" \in DOMAIN environ

Unreliable(ext) ==
    AlreadyFailed(ext) \/ LinksCarbon(ext) \/ ExplicitArch(ext) \/ OnCygwin \/ CrossBuild

\* the announcement just made names module name
Announced(name) ==
    /\ Len(output') = Len(output) + 1
    /\ SubSeq(output', 1, Len(output)) = output
    /\ output'[Len(output')].kind = "announce"
    /\ output'[Len(output')].cells[2] = name

\* C12: when the load fails with an ImportError the module goes on the
\* import-failed list only, the artifact is gone and the quarantine file
\* <name>_failed<ext> exists (whether or not one existed before); when it
\* fails with any other exception the module goes on the build-failed list
\* only and no file changes; when it succeeds neither list nor any file
\* changes.
C12_ImportOutcomes ==
    [][Checking =>
         LET name == Head(todo).name
             artifact == <<"/", "build", "lib", name \o ".so">>
             quarantine == <<"/", "build", "lib", name \o "_failed.so">>
         IN  /\ CheckExtensionImportError =>
                   /\ failed_on_import' = Append(failed_on_import, name)
                   /\ failed' = failed
                   /\ fs' = (fs \ {artifact}) \cup {quarantine}
             /\ CheckExtensionImportRaises =>
                   /\ failed' = Append(failed, name)
                   /\ failed_on_import' = failed_on_import
                   /\ fs' = fs
             /\ CheckExtensionImportOk =>
                   /\ failed' = failed /\ failed_on_import' = failed_on_import
                   /\ fs' = fs]_vars

\* an import error with a quarantine file of an earlier run in the way
C12_Witness ==
    /\ pc = "summary" /\ failed_on_import = <<"_ssl">> /\ failed = <<>>
    /\ <<"/", "build", "lib", "_ssl_failed.so">> \in args.fs
    /\ <<"/", "build", "lib", "_ssl_failed.so">> \in fs
    /\ <<"/", "build", "lib", "_ssl.so">> \notin fs

\* C13: under any of the known-unreliable conditions check_extension_import
\* does not load the artifact, renames nothing and adds the module to
\* neither failure list.
C13_UnreliableNeverLoads ==
    [][(Checking /\ Unreliable(Head(todo))) =>
          /\ ~Loads
          /\ fs' = fs
          /\ failed' = failed /\ failed_on_import' = failed_on_import]_vars

\* a cross build: the check is over and nothing was loaded or recorded
C13_Witness ==
    /\ pc = "summary" /\ CrossBuild /\ HOST_PLATFORM = "linux"
    /\ failed = <<>> /\ failed_on_import = <<>> /\ fs = args.fs
    /\ extensions[1].extra_link_args = <<>>

\* C14 as stated: every skipped import check, the cross-build one included,
\* emits a warning that names the module.
C14_EverySkipWarns ==
    [][(Checking /\ Unreliable(Head(todo))) => Announced(Head(todo).name)]_vars

\* C14, amended: a check skipped because the build failed, for the Carbon
\* link flag, for an explicit -arch on 64-bit macOS or on Cygwin emits a
\* warning that names the module; a check skipped for the cross build alone
\* emits nothing.
C14_SkipWarnsUnlessCrossOnly ==
    [][Checking =>
         LET ext == Head(todo)
         IN  /\ (AlreadyFailed(ext) \/ LinksCarbon(ext) \/ ExplicitArch(ext) \/ OnCygwin)
                    => Announced(ext.name)
             /\ (CrossBuild /\ ~(AlreadyFailed(ext) \/ LinksCarbon(ext)
                                    \/ ExplicitArch(ext) \/ OnCygwin))
                    => output' = output]_vars

\* a Cygwin skip has been announced
C14_Witness ==
    /\ pc = "summary" /\ HOST_PLATFORM = "cygwin" /\ failed = <<>>
    /\ extensions[1].extra_link_args = <<>>
    /\ Len(output) = 1 /\ output[1].kind = "announce"
    /\ output[1].cells[2] = extensions[1].name
(***************************************************************************)
(* summary() on its own: every way of giving four names a disposition, in  *)
(* three list orders.  args keeps the lists summary() was called with.     *)
(***************************************************************************)
ReportNames == {"_ctypes", "_ssl", "zlib", "Zlib"}

\* "ok" is a module that was built and imported, "absent" one never detected
Dispositions == {"ok", "absent", "missing", "built", "disabled", "disabled_configure",
                 "failed", "failed_on_import"}

ReportOrders == {<<"_ctypes", "_ssl", "zlib", "Zlib">>, <<"Zlib", "zlib", "_ssl", "_ctypes">>,
                 <<"zlib", "_ctypes", "Zlib", "_ssl">>}

\* the names of order that how gives one of the dispositions wanted
Disposed(order, how, wanted) ==
    LET is_wanted(name) == how[name] \in wanted
    IN  SelectSeq(order, is_wanted)

as_extensions(names) == [i \in DOMAIN names |-> Extension(names[i], module_sources(names[i]))]

InitReport ==
    /\ DetectedDirs
    /\ pc = "summary"
    /\ DISABLED_MODULE_LIST = {} /\ LIST_MODULE_NAMES = FALSE
    /\ HOST_PLATFORM = "linux" /\ MACOS_SDK_ROOT = <<"/">>
    /\ environ \in {<<>>, [PYTHONSTRICTEXTENSIONBUILD |-> "1"]}
    /\ config_vars = [srcdir |-> <<"/", "src">>]
    /\ fs = {} /\ todo = <<>> /\ output = <<>> /\ result = "running"
    /\ ret = <<>>
    /\ \E order \in ReportOrders, how \in [ReportNames -> Dispositions] :
          /\ extensions = as_extensions(Disposed(order, how, {"ok", "failed", "failed_on_import"}))
          /\ missing = Disposed(order, how, {"missing"})
          /\ mods_built = as_extensions(Disposed(order, how, {"built"}))
          /\ mods_disabled = as_extensions(Disposed(order, how, {"disabled"}))
          /\ disabled_configure = Disposed(order, how, {"disabled_configure"})
          /\ failed = Disposed(order, how, {"failed"})
          /\ failed_on_import = Disposed(order, how, {"failed_on_import"})
          /\ args = [missing |-> Disposed(order, how, {"missing"}),
                     disabled_configure |-> Disposed(order, how, {"disabled_configure"})]

NextReport == Summary

SpecReport == InitReport /\ [][NextReport]_vars

\* the categories of the report: title and names, as summary() was given them
Categories ==
    <<[title |-> "missing", names |-> args.missing],
      [title |-> "built by the Makefile", names |-> names_of(mods_built)],
      [title |-> "disabled in the Setup files", names |-> names_of(mods_disabled)],
      [title |-> "disabled by configure", names |-> args.disabled_configure],
      [title |-> "failed", names |-> failed],
      [title |-> "failed on import", names |-> failed_on_import]>>

\* the entries of the rows printed from line i of the output on, row by row
RECURSIVE RowsFrom(_)
RowsFrom(i) ==
    IF i > Len(output) \/ output[i].kind # "row" THEN <<>>
    ELSE output[i].cells \o RowsFrom(i + 1)

\* the entries printed under title
Printed(title) ==
    LET at == CHOOSE i \in DOMAIN output :
                  output[i].kind = "title" /\ output[i].cells = <<title>>
    IN  RowsFrom(at + 1)

Count(seq, x) == Cardinality({i \in DOMAIN seq : seq[i] = x})

\* the names in ascending order when upper and lower case count the same
CaseFolded(name) == IF name = "Zlib" THEN "zlib" ELSE name
FoldedOrder == <<"_ctypes", "_ssl", "zlib">>
FoldedRank(name) == CHOOSE i \in DOMAIN FoldedOrder : FoldedOrder[i] = CaseFolded(name)

\* C15: for each category, the entries printed, read row by row, three to a
\* row, are the names of the category, each as often as the category holds
\* it, in ascending case-insensitive order, followed by blank fillers only
\* (fewer than three); an empty category prints nothing, not even its title.
C15_ThreeColumnsSortedComplete ==
    pc = "done" =>
        \A c \in DOMAIN Categories :
            LET names == Categories[c].names
                title == Categories[c].title
            IN  IF names = <<>> THEN ~Reported(title)
                ELSE /\ Reported(title)
                     /\ LET cells == Printed(title)
                            n == Len(names)
                        IN  /\ Len(cells) % 3 = 0 /\ Len(cells) - n \in 0..2
                            /\ \A i \in DOMAIN cells : (i > n) <=> (cells[i] = "")
                            /\ \A name \in ReportNames :
                                   Count(cells, name) = Count(names, name)
                            /\ \A i, j \in 1..n :
                                   i < j => FoldedRank(cells[i]) <= FoldedRank(cells[j])

\* four names failed to build, given in descending order: two rows, the
\* second with two fillers, "_ssl" before "zlib" and "Zlib"
C15_Witness ==
    /\ pc = "done"
    /\ failed = <<"Zlib", "zlib", "_ssl", "_ctypes">>
    /\ Printed("failed") = <<"_ctypes", "_ssl", "Zlib", "zlib", "", "">>
\* C16 as stated: the column width of every printed row is at least the
\* length of every name printed in any category, the missing, built,
\* disabled and disabled-by-configure categories included.
C16_WidthCoversEveryPrintedName ==
    pc = "done" =>
        \A i, j \in DOMAIN output :
            (output[i].kind = "row" /\ output[j].kind = "row") =>
                \A k \in 1..3 : Len(output[j].cells[k]) <= output[i].width

\* what does hold: the width is the length of the longest name among the
\* compile set and the two failure lists, whatever the other categories hold
C16_WidthCoversCompileSetAndFailures ==
    pc = "done" =>
        \A i \in DOMAIN output :
            output[i].kind = "row" =>
                /\ \A e \in DOMAIN extensions : Len(extensions[e].name) <= output[i].width
                /\ \A f \in DOMAIN failed : Len(failed[f]) <= output[i].width
                /\ \A f \in DOMAIN failed_on_import :
                       Len(failed_on_import[f]) <= output[i].width

\* "_ctypes" is printed as missing in a column as wide as "zlib"
C16_Witness ==
    /\ pc = "done" /\ Reported("missing")
    /\ Printed("missing") = <<"_ctypes", "", "">>
    /\ \A i \in DOMAIN output : output[i].kind = "row" => output[i].width = 4
    /\ names_of(extensions) = <<"zlib">>
(***************************************************************************)
(* Dispositions at the end of a run (run-level).                           *)
(***************************************************************************)
\* the module names of each report category (the blank fillers
\* print_three_column has added are not names)
CategoryNames ==
    <<Range(missing) \ {""},
      Range(names_of(mods_built)),
      Range(names_of(mods_disabled)),
      Range(disabled_configure) \ {""},
      Range(failed),
      Range(failed_on_import)>>

OneDispositionEach ==
    \A c, d \in DOMAIN CategoryNames : c # d => CategoryNames[c] \cap CategoryNames[d] = {}

\* C17 as stated: at the end of a run no module name is in more than one of
\* the six report categories, whatever the config-store name sets and the
\* build and import outcomes are.
C17_ExactlyOneDisposition == SummaryDone => OneDispositionEach

\* what does hold: the categories are disjoint in every run in which no
\* module is named by both MODBUILT_NAMES and MODDISABLED_NAMES
C17_OneDispositionWhenSetupSetsDisjoint ==
    (SummaryDone /\ config_vars["MODBUILT_NAMES"] \cap config_vars["MODDISABLED_NAMES"] = {})
        => OneDispositionEach

\* a run that ends with one module in each of four categories
C17_Witness ==
    /\ SummaryDone /\ OneDispositionEach
    /\ names_of(mods_built) = <<"zlib">> /\ failed = <<"_ctypes">>
    /\ Contains(missing, "_ssl")

(***************************************************************************)
(* add_dir_to_list on its own: a list of directories receives a few        *)
(* directories, one call after the other.                                  *)
(***************************************************************************)
MaxAdds == 2

\* os.path.isdir: a directory is recorded in the file system as its
\* normalized path followed by a separator; a plain file has none
isdir(files, path) == path # <<>> /\ Append(abspath(path), "") \in files

\* list.insert(index, item)
list_insert(lst, index, item) ==
    LET at == IF index > Len(lst) THEN Len(lst) ELSE index
    IN  SubSeq(lst, 1, at) \o <<item>> \o SubSeq(lst, at + 1, Len(lst))

\* add_dir_to_list without the test 'dir in dirlist'
add_dir_to_list_unchecked(files, dirlist, dir) ==
    IF ~dir.set \/ ~isdir(files, dir.value)
    THEN dirlist
    ELSE LET relative == {i \in DOMAIN dirlist : ~isabs(dirlist[i])}
         IN  IF relative # {}
             THEN LET i == CHOOSE i \in relative : \A j \in relative : i <= j
                  IN  list_insert(dirlist, i, dir.value)
             ELSE list_insert(dirlist, 0, dir.value)

\* add_dir_to_list(dirlist, dir): the list after the call. dir is None
\* (NotGiven) or a path. The loop stops at the first relative entry, whose
\* 0-based index is i - 1 here, and inserts at the index after it.
add_dir_to_list(files, dirlist, dir) ==
    IF ~dir.set \/ ~isdir(files, dir.value) \/ Contains(dirlist, dir.value)
    THEN dirlist
    ELSE LET relative == {i \in DOMAIN dirlist : ~isabs(dirlist[i])}
         IN  IF relative # {}
             THEN LET i == CHOOSE i \in relative : \A j \in relative : i <= j
                  IN  list_insert(dirlist, i, dir.value)
             ELSE list_insert(dirlist, 0, dir.value)

\* the local build directories a compiler list starts with, and the
\* absolute directories it may already hold
LeadingRelative == {<<>>, << <<".">> >>, << <<".">>, <<"Include">> >>}
AbsoluteTail == {<<>>, << <<"/", "usr", "lib">> >>, << <<"/", "usr", "local", "lib">> >>}

\* the places the calls name: each is a directory, a plain file, or absent
AddDirPlaces == {<<"/", "usr", "local", "lib">>, <<"/", "opt", "lib">>}
AddDirFileSystems ==
    {{Append(getcwd, ""), <<"/", "build", "Include", "">>}
         \cup {Append(d, "") : d \in dirs} \cup plain
       : dirs \in SUBSET AddDirPlaces, plain \in SUBSET AddDirPlaces}

\* the second argument of a call
AddDirArgs == {NotGiven} \cup Given(AddDirPlaces \cup {<<"Include">>, <<"Lib">>})

InitAddDir ==
    /\ InitObject
    /\ pc = "add"
    /\ extensions = <<>> /\ todo = <<>>
    /\ DISABLED_MODULE_LIST = {} /\ LIST_MODULE_NAMES = FALSE
    /\ HOST_PLATFORM = "linux" /\ MACOS_SDK_ROOT = <<"/">>
    /\ environ = <<>> /\ config_vars = [srcdir |-> <<"/", "src">>]
    /\ output = <<>> /\ result = "running" /\ ret = <<>>
    /\ lib_dirs = <<>> /\ inc_dirs = <<>>
    /\ fs \in AddDirFileSystems
    /\ \E head \in LeadingRelative, tail \in AbsoluteTail :
          /\ self_compiler = [NoCompilerDirs EXCEPT !.library_dirs = head \o tail]
          /\ args = [dirlist |-> head \o tail, dir |-> NotGiven, calls |-> 0]

\* one call add_dir_to_list(self.compiler.library_dirs, dir)
AddDirToList ==
    /\ pc = "add" /\ args.calls < MaxAdds
    /\ \E dir \in AddDirArgs :
          /\ self_compiler' = [self_compiler EXCEPT
                                  !.library_dirs = add_dir_to_list(fs, @, dir)]
          /\ args' = [dirlist |-> self_compiler.library_dirs, dir |-> dir,
                      calls |-> args.calls + 1]
    /\ UNCHANGED <<pc, extensions, missing, disabled_configure, failed,
                   failed_on_import, mods_built, mods_disabled,
                   DISABLED_MODULE_LIST, LIST_MODULE_NAMES, HOST_PLATFORM,
                   MACOS_SDK_ROOT, config_vars, environ, fs, todo, output,
                   result, ret, lib_dirs, inc_dirs>>

NextAddDir == AddDirToList

SpecAddDir == InitAddDir /\ [][NextAddDir]_vars

\* no entry occurs twice
NoDuplicates(lst) == \A i, j \in DOMAIN lst : lst[i] = lst[j] => i = j

\* how often an entry occurs
Occurrences(lst, item) == Cardinality({i \in DOMAIN lst : lst[i] = item})

\* a call has returned; the list before it and its argument are in args
Called == pc = "add" /\ args.calls > 0
Admissible ==
    /\ args.dir.set
    /\ isdir(fs, args.dir.value)
    /\ ~Contains(args.dirlist, args.dir.value)

\* C18: add_dir_to_list never introduces a duplicate entry, and it changes
\* the list only when dir is not None, is an existing directory and is not
\* already in the list; then it adds dir once and nothing else.
C18_AddDirNoDuplicateAndOnlyWhenAdmissible ==
    Called =>
        LET old == args.dirlist
            new == self_compiler.library_dirs
        IN  /\ (new # old) => Admissible
            /\ Admissible =>
                  \E k \in 0..Len(old) : new = list_insert(old, k, args.dir.value)
            /\ \A item \in Range(new) :
                  Occurrences(new, item) <= (IF item \in Range(old)
                                             THEN Occurrences(old, item) ELSE 1)
            /\ NoDuplicates(new)

\* a call that added a directory, and a call that was refused because the
\* directory was already in the list
C18_Witness ==
    /\ Called /\ args.calls = MaxAdds
    /\ ~Admissible /\ args.dir.set /\ isdir(fs, args.dir.value)
    /\ Contains(args.dirlist, args.dir.value)
    /\ Len(self_compiler.library_dirs) = 3

\* an absolute directory has just been inserted
InsertedAbsolute == Called /\ Admissible /\ isabs(args.dir.value)
PositionOf(lst, item) == CHOOSE i \in DOMAIN lst : lst[i] = item

\* C19 as stated: an absolute directory that is inserted is placed after
\* every relative directory of the list, however many relative entries lead
\* the list.
C19_InsertedAfterEveryRelative ==
    InsertedAbsolute =>
        LET new == self_compiler.library_dirs
        IN  \A i \in DOMAIN new :
               ~isabs(new[i]) => i < PositionOf(new, args.dir.value)

\* what the code does: the directory goes right after the first relative
\* entry, and to the head of a list that has no relative entry
C19_InsertedAfterFirstRelative ==
    (Called /\ Admissible) =>
        LET old == args.dirlist
            new == self_compiler.library_dirs
            relative == {i \in DOMAIN old : ~isabs(old[i])}
        IN  IF relative = {}
            THEN new = <<args.dir.value>> \o old
            ELSE \E i \in relative :
                    /\ \A j \in relative : i <= j
                    /\ new = SubSeq(old, 1, i) \o <<args.dir.value>>
                                 \o SubSeq(old, i + 1, Len(old))

\* an absolute directory was inserted into a list led by '.' and 'Include'
C19_Witness ==
    /\ InsertedAbsolute
    /\ Len(args.dirlist) >= 2
    /\ args.dirlist[1] = <<".">> /\ args.dirlist[2] = <<"Include">>

(***************************************************************************)
(* init_inc_lib_dirs on its own.  A Makefile variable that holds compiler  *)
(* flags is a sequence of words, each a switch and the path that follows   *)
(* it: -L/opt/lib is word("-L", <<"/", "opt", "lib">>).                    *)
(***************************************************************************)
word(switch, path) == [switch |-> switch, path |-> path]

\* sysconfig.get_config_var(name) of a variable that holds a directory
config_dir(name) ==
    IF config_set(name) THEN [set |-> TRUE, value |-> config_vars[name]] ELSE NotGiven

\* item[2:] of every item of value.split() that starts with switch
flag_dirs(value, switch) ==
    LET starts(w) == w.switch = switch
        items == SelectSeq(value, starts)
    IN  [i \in DOMAIN items |-> items[i].path]

\* sysroot_paths(make_vars, subdirs): the first variable that sets
\* --sysroot decides; of its sub-directories those that exist are returned
RECURSIVE sysroot_paths(_, _, _)
sysroot_paths(files, make_vars, subdirs) ==
    IF make_vars = <<>> THEN <<>>
    ELSE IF ~config_set(Head(make_vars)) THEN sysroot_paths(files, Tail(make_vars), subdirs)
    ELSE LET sets_sysroot(w) == w.switch = "--sysroot=" /\ w.path # <<>>
             m == SelectSeq(config_vars[Head(make_vars)], sets_sysroot)
         IN  IF m = <<>> THEN sysroot_paths(files, Tail(make_vars), subdirs)
             ELSE LET sysroot == m[1].path
                      paths == [i \in DOMAIN subdirs |->
                                   join(sysroot, drop_root(subdirs[i]))]
                      is_dir(path) == isdir(files, path)
                  IN  SelectSeq(paths, is_dir)

\* the first occurrence of every entry
RECURSIVE first_occurrences(_, _)
first_occurrences(lst, seen) ==
    IF lst = <<>> THEN <<>>
    ELSE IF Head(lst) \in seen THEN first_occurrences(Tail(lst), seen)
    ELSE <<Head(lst)>> \o first_occurrences(Tail(lst), seen \cup {Head(lst)})

\* init_inc_lib_dirs, lines 919-930: LIBDIR and INCLUDEDIR join the
\* compiler's lists on a native build outside /usr that is not a framework
init_compiler_dirs(files, comp, base_prefix) ==
    IF /\ ~CROSS_COMPILING
       /\ normpath(base_prefix) # <<"/", "usr">>
       /\ ~(config_set("PYTHONFRAMEWORK") /\ config_vars["PYTHONFRAMEWORK"] # "")
    THEN [comp EXCEPT
             !.library_dirs = add_dir_to_list(files, @, config_dir("LIBDIR")),
             !.include_dirs = add_dir_to_list(files, @, config_dir("INCLUDEDIR"))]
    ELSE comp

\* self.lib_dirs if every directory were kept once
init_lib_dirs_once(files, comp) ==
    first_occurrences(
        (comp.library_dirs
            \o (IF ~CROSS_COMPILING THEN system_lib_dirs
                ELSE sysroot_paths(files, <<"LDFLAGS", "CC">>, system_lib_dirs)))
        \o (IF HOST_PLATFORM \in {"osf1", "unixware7", "openunix8"}
            THEN << <<"/", "usr", "ccs", "lib">> >> ELSE <<>>)
        \o (IF HOST_PLATFORM = "hp-ux11"
            THEN << <<"/", "usr", "lib", "hpux64">>, <<"/", "usr", "lib", "hpux32">> >>
            ELSE <<>>)
        \o (IF MACOS THEN flag_dirs(config_vars["LDFLAGS"], "-L") ELSE <<>>),
        {})

\* self.lib_dirs as init_inc_lib_dirs leaves it
init_lib_dirs(files, comp) ==
    (comp.library_dirs
        \o (IF ~CROSS_COMPILING THEN system_lib_dirs
            ELSE sysroot_paths(files, <<"LDFLAGS", "CC">>, system_lib_dirs)))
    \o (IF HOST_PLATFORM \in {"osf1", "unixware7", "openunix8"}
        THEN << <<"/", "usr", "ccs", "lib">> >> ELSE <<>>)
    \o (IF HOST_PLATFORM = "hp-ux11"
        THEN << <<"/", "usr", "lib", "hpux64">>, <<"/", "usr", "lib", "hpux32">> >>
        ELSE <<>>)
    \o (IF MACOS THEN flag_dirs(config_vars["LDFLAGS"], "-L") ELSE <<>>)

\* self.inc_dirs as init_inc_lib_dirs leaves it
init_inc_dirs(files, comp) ==
    (comp.include_dirs
        \o (IF ~CROSS_COMPILING THEN system_include_dirs
            ELSE sysroot_paths(files, <<"CPPFLAGS", "CFLAGS", "CC">>,
                               system_include_dirs)))
    \o (IF MACOS THEN flag_dirs(config_vars["CFLAGS"], "-I") ELSE <<>>)

\* the directories of the file system of a build host, with or without the
\* directories of a sysroot
HostDirs ==
    {<<"/", "lib", "">>, <<"/", "usr", "lib", "">>, <<"/", "usr", "include", "">>,
     <<"/", "usr", "local", "lib", "">>, <<"/", "usr", "local", "include", "">>,
     <<"/", "opt", "lib", "">>}
SysrootDirs ==
    {<<"/", "sysroot", "usr", "lib", "">>, <<"/", "sysroot", "lib", "">>,
     <<"/", "sysroot", "usr", "include", "">>}
IncLibFileSystems == {HostDirs, HostDirs \cup SysrootDirs}

IncLibPlatforms == {"linux", "darwin", "osf1", "hp-ux11"}
BasePrefixes == {<<"/", "usr">>, <<"/", "usr", "local">>}
Frameworks == {"", "Python"}
\* LIBDIR and INCLUDEDIR: unset, under /usr/local, or the system directories
InstallDirs ==
    {[LIBDIR |-> NotGiven, INCLUDEDIR |-> NotGiven],
     [LIBDIR |-> [set |-> TRUE, value |-> <<"/", "usr", "local", "lib">>],
      INCLUDEDIR |-> [set |-> TRUE, value |-> <<"/", "usr", "local", "include">>]],
     [LIBDIR |-> [set |-> TRUE, value |-> <<"/", "usr", "lib">>],
      INCLUDEDIR |-> [set |-> TRUE, value |-> <<"/", "usr", "include">>]]}
\* the compiler's lists before the call: no entry twice, relative entries first
CompilerLibraryDirs ==
    {<<>>, << <<"/", "usr", "lib">> >>, << <<"/", "opt", "lib">> >>,
     << <<"/", "sysroot", "usr", "lib">> >>}
CompilerIncludeDirs ==
    {<< <<".">> >>, << <<".">>, <<"/", "usr", "include">> >>}
LdflagsValues ==
    {<<>>, <<word("-L", <<"/", "opt", "lib">>)>>,
     <<word("--sysroot=", <<"/", "sysroot">>), word("-L", <<"/", "usr", "lib">>)>>,
     <<word("-L", <<"/", "opt", "lib">>), word("-L", <<"/", "opt", "lib">>)>>}
CflagsValues ==
    {<<word("-O", <<"2">>)>>, <<word("-I", <<"/", "usr", "include">>)>>,
     <<word("--sysroot=", <<"/", "sysroot">>), word("-I", <<"/", "opt", "include">>)>>}
CcValues ==
    {<<word("", <<"gcc">>)>>, <<word("", <<"gcc">>), word("--sysroot=", <<"/">>)>>}

InitIncLib ==
    /\ InitObject
    /\ pc = "init_inc_lib_dirs"
    /\ extensions = <<>> /\ todo = <<>>
    /\ DISABLED_MODULE_LIST = {} /\ LIST_MODULE_NAMES = FALSE
    /\ HOST_PLATFORM \in IncLibPlatforms /\ MACOS_SDK_ROOT = <<"/">>
    /\ environ \in {<<>>, [_PYTHON_HOST_PLATFORM |-> "linux-arm"]}
    /\ output = <<>> /\ result = "running" /\ ret = <<>>
    /\ lib_dirs = None /\ inc_dirs = None
    /\ fs \in IncLibFileSystems
    /\ \E install \in InstallDirs, framework \in Frameworks,
          ldflags \in LdflagsValues, cflags \in CflagsValues, cc \in CcValues :
          LET given == [srcdir |-> [set |-> TRUE, value |-> <<"/", "src">>],
                        PYTHONFRAMEWORK |-> [set |-> TRUE, value |-> framework],
                        LIBDIR |-> install.LIBDIR,
                        INCLUDEDIR |-> install.INCLUDEDIR,
                        LDFLAGS |-> [set |-> TRUE, value |-> ldflags],
                        CFLAGS |-> [set |-> TRUE, value |-> cflags],
                        CC |-> [set |-> TRUE, value |-> cc]]
          IN  config_vars = [n \in {k \in DOMAIN given : given[k].set} |-> given[n].value]
    /\ \E library_dirs \in CompilerLibraryDirs, include_dirs \in CompilerIncludeDirs,
          base_prefix \in BasePrefixes :
          /\ self_compiler = [NoCompilerDirs EXCEPT !.library_dirs = library_dirs,
                                                    !.include_dirs = include_dirs]
          /\ args = [base_prefix |-> base_prefix]

\* self.init_inc_lib_dirs()
InitIncLibDirs ==
    /\ pc = "init_inc_lib_dirs"
    /\ LET comp == init_compiler_dirs(fs, self_compiler, args.base_prefix)
       IN  /\ self_compiler' = comp
           /\ lib_dirs' = init_lib_dirs(fs, comp)
           /\ inc_dirs' = init_inc_dirs(fs, comp)
    /\ pc' = "inc_lib_dirs_set"
    /\ UNCHANGED <<extensions, missing, disabled_configure, failed,
                   failed_on_import, mods_built, mods_disabled,
                   DISABLED_MODULE_LIST, LIST_MODULE_NAMES, HOST_PLATFORM,
                   MACOS_SDK_ROOT, config_vars, environ, fs, todo, output,
                   result, args, ret>>

NextIncLib == InitIncLibDirs

SpecIncLib == InitIncLib /\ [][NextIncLib]_vars

IncLibDirsSet == pc = "inc_lib_dirs_set"
IsPrefixOf(a, b) == Len(a) <= Len(b) /\ SubSeq(b, 1, Len(a)) = a
Rest(a, b) == SubSeq(b, Len(a) + 1, Len(b))

AIX == HOST_PLATFORM = "aix"
VXWORKS == HOST_PLATFORM = "vxworks"

\* self.build_temp and the temporary file of a probe
build_temp == <<"/", "build", "temp">>
tmpfile(name) == join(build_temp, <<name>>)

\* if not os.path.exists(self.build_temp): os.makedirs(self.build_temp)
makedirs(files, path) == files \cup {Append(normpath(path), "")}

\* run_command of a command whose output the shell redirects to tmp: the
\* shell creates the file before it runs the command, or fails to; sh is
\* [created, status]
run_command_redirected(files, tmp, sh) ==
    IF sh.created THEN files \cup {normpath(tmp)} ELSE files

\* what a routine leaves: the file system, the compiler's lists and the
\* exception it raised ("" when it returned)
Left(files, comp, raised) == [files |-> files, comp |-> comp, raised |-> raised]

\* a directory given as a string
dir_(path) == [set |-> TRUE, value |-> path]

\* add_dir_to_list for each directory of dirs in turn
RECURSIVE add_dirs_to_list(_, _, _)
add_dirs_to_list(files, dirlist, dirs) ==
    IF dirs = <<>> THEN dirlist
    ELSE add_dirs_to_list(files, add_dir_to_list(files, dirlist, dir_(Head(dirs))),
                          Tail(dirs))

\* '/name/' in path
has_component(path, name) == \E i \in 1..(Len(path) - 1) : path[i] = name

\* '/usr/lib/' + multiarch_path_component and its include twin
multiarch_dirs(files, comp, component) ==
    [comp EXCEPT
        !.library_dirs = add_dir_to_list(files, @, dir_(<<"/", "usr", "lib", component>>)),
        !.include_dirs = add_dir_to_list(files, @, dir_(<<"/", "usr", "include", component>>))]

\* add_multiarch_paths: the compiler's -print-multiarch, then
\* dpkg-architecture when that gave nothing and the tool is installed
add_multiarch_paths(files, comp, env) ==
    LET tmp == tmpfile("multiarch")
        f1 == run_command_redirected(makedirs(files, build_temp), tmp, env.sh1)
        reads1 == env.sh1.status = 0
        component == IF reads1 /\ env.read1 = "ok" THEN env.out1 ELSE ""
        f2 == os_remove(f1, tmp)
    IN  IF ~exists(f1, tmp) THEN Left(f2, comp, "FileNotFoundError")
        ELSE IF reads1 /\ env.read1 = "raises" THEN Left(f2, comp, "OSError")
        ELSE IF component # "" THEN Left(f2, multiarch_dirs(f2, comp, component), "")
        ELSE IF ~env.dpkg THEN Left(f2, comp, "")
        ELSE LET g1 == run_command_redirected(makedirs(f2, build_temp), tmp, env.sh2)
                 reads2 == env.sh2.status = 0
                 comp2 == IF reads2 /\ env.read2 = "ok"
                          THEN multiarch_dirs(g1, comp, env.out2) ELSE comp
                 g2 == os_remove(g1, tmp)
             IN  IF ~exists(g1, tmp) THEN Left(g2, comp2, "FileNotFoundError")
                 ELSE IF reads2 /\ env.read2 = "raises" THEN Left(g2, comp2, "OSError")
                 ELSE Left(g2, comp2, "")

\* add_wrcc_search_dirs: the directories of the "libraries" line
add_wrcc_search_dirs(files, comp, env) ==
    LET tmp == tmpfile("wrccpaths")
        f1 == run_command_redirected(makedirs(files, build_temp), tmp, env.sh)
        f2 == os_remove(f1, tmp)
        normalized == [i \in DOMAIN env.out |-> normpath(env.out[i])]
    IN  IF env.sh.status # 0 THEN Left(f2, comp, "")
        ELSE IF env.read = "raises" \/ ~exists(f1, tmp) THEN Left(f2, comp, "OSError")
        ELSE Left(f2,
                  [comp EXCEPT !.library_dirs = add_dirs_to_list(f1, @, normalized)],
                  "")

\* add_cross_compiling_paths: LIBRARY_PATH and the include search list of
\* the compiler's verbose output, without the toolchain's own directories;
\* on VxWorks add_wrcc_search_dirs follows
add_cross_compiling_paths(files, comp, env) ==
    LET tmp == tmpfile("ccpaths")
        f1 == run_command_redirected(makedirs(files, build_temp), tmp, env.sh)
        reads == env.sh.status = 0
        known == env.out.compiler \in {"gcc", "clang"}
        not_gcc(d) == ~has_component(d, "gcc")
        not_toolchain(d) == ~has_component(d, "gcc") /\ ~has_component(d, "clang")
        library_path == [i \in DOMAIN env.out.library_path |->
                            normpath(env.out.library_path[i])]
        comp1 == IF reads /\ env.read = "ok" /\ known
                 THEN [comp EXCEPT
                          !.library_dirs =
                              add_dirs_to_list(f1, @, SelectSeq(library_path, not_gcc)),
                          !.include_dirs =
                              add_dirs_to_list(f1, @, SelectSeq(env.out.incdirs, not_toolchain))]
                 ELSE comp
        f2 == os_remove(f1, tmp)
    IN  IF ~exists(f1, tmp) THEN Left(f2, comp1, "FileNotFoundError")
        ELSE IF reads /\ env.read = "raises" THEN Left(f2, comp1, "OSError")
        ELSE IF VXWORKS THEN add_wrcc_search_dirs(f2, comp1, env.wrcc)
        ELSE Left(f2, comp1, "")

\* 'curses' in name and name.startswith('ncurses'), for the library names of
\* the model
in_curses(name) == name \in {"curses", "cursesw", "ncurses", "ncursesw"}
startswith_ncurses(name) == name \in {"ncurses", "ncursesw"}

\* the loop over the lines of the ldd / readelf output: the first line that
\* names a curses library or tinfo decides; a line is the library it names
RECURSIVE termcap_library_of(_)
termcap_library_of(lines) ==
    IF lines = <<>> THEN ""
    ELSE IF in_curses(Head(lines)) THEN Head(lines)
    ELSE IF Head(lines) = "tinfo" THEN "tinfo"
    ELSE termcap_library_of(Tail(lines))

\* what a detector leaves: the file system, the registry, the missing list
\* and the exception it raised ("" when it returned)
Detected(files, exts, miss, raised) ==
    [files |-> files, extensions |-> exts, missing |-> miss, raised |-> raised]

\* detect_readline_curses, lines 1118-1155: the probe for the library
\* readline is linked with.  ldd_ret is 1 without a command having run
\* when the build is native and there is no ldd.
readline_probe(files, env) ==
    LET tmp == tmpfile("readline_termcap_lib")
        f0 == makedirs(files, build_temp)
        runs == CROSS_COMPILING \/ env.ldd
        f1 == IF runs THEN run_command_redirected(f0, tmp, env.sh) ELSE f0
        status == IF runs THEN env.sh.status ELSE 1
    IN  IF ~config_set("HAVE_LIBREADLINE")
        THEN [files |-> f0, library |-> "", raised |-> ""]
        ELSE IF status = 0 /\ (env.read = "raises" \/ ~exists(f1, tmp))
        THEN [files |-> f1, library |-> "", raised |-> "OSError"]
        ELSE [files |-> os_remove(f1, tmp),
              library |-> IF status = 0 THEN termcap_library_of(env.out) ELSE "",
              raised |-> ""]

\* skip_curses_panel if AIX were treated like every other host
skip_curses_panel_never == FALSE

\* skip_curses_panel = True if AIX else False
skip_curses_panel == AIX

\* detect_readline_curses.  env.libraries are the libraries
\* self.compiler.find_library_file finds in self.lib_dirs, env.termcap
\* whether it finds termcap once /usr/lib/termcap is searched too.
detect_readline_curses(files, exts, miss, env) ==
    LET probe == readline_probe(files, env)
        finds(name) == name \in env.libraries
        readline_termcap_library == probe.library
        readline_lib == IF config_set("WITH_EDITLINE") THEN "edit" ELSE "readline"
        curses_library ==
            IF in_curses(readline_termcap_library) THEN readline_termcap_library
            ELSE IF finds("ncursesw") THEN "ncursesw"
            ELSE IF AIX /\ finds("curses") THEN "curses"
            ELSE IF finds("ncurses") THEN "ncurses"
            ELSE IF finds("curses") THEN "curses"
            ELSE ""
        os_release ==
            IF config_set("MACOSX_DEPLOYMENT_TARGET")
                   /\ (\/ config_vars["MACOSX_DEPLOYMENT_TARGET"][1] < 10
                       \/ /\ config_vars["MACOSX_DEPLOYMENT_TARGET"][1] = 10
                          /\ config_vars["MACOSX_DEPLOYMENT_TARGET"][2] < 5)
            THEN 8 ELSE env.os_release
        do_readline ==
            /\ config_set("HAVE_LIBREADLINE") /\ finds(readline_lib)
            /\ ~(/\ MACOS /\ os_release < 9
                 /\ find_file(<<"readline", "rlconf.h">>, inc_dirs, <<>>) = NotFound)
        readline_libs ==
            <<readline_lib>>
                \o (IF readline_termcap_library # "" THEN <<>>
                    ELSE IF curses_library # "" THEN <<curses_library>>
                    ELSE IF env.termcap THEN <<"termcap">>
                    ELSE <<>>)
        exts1 == IF do_readline
                 THEN Append(exts, [Extension("readline", << <<"readline.c">> >>) EXCEPT
                                       !.library_dirs = << <<"/", "usr", "lib", "termcap">> >>,
                                       !.libraries = readline_libs])
                 ELSE exts
        miss1 == IF do_readline THEN miss ELSE Append(miss, "readline")
        curses_defines ==
            IF curses_library = "ncursesw"
            THEN << <<"HAVE_NCURSESW", "1">> >>
                     \o (IF MACOS THEN << <<"_XOPEN_SOURCE_EXTENDED", "1">> >> ELSE <<>>)
            ELSE IF MACOS /\ curses_library = "ncurses"
            THEN << <<"HAVE_NCURSESW", "1">>, <<"_XOPEN_SOURCE_EXTENDED", "1">> >>
            ELSE <<>>
        curses_includes ==
            IF curses_library = "ncursesw" /\ ~CROSS_COMPILING
            THEN << <<"/", "usr", "include", "ncursesw">> >> ELSE <<>>
        panel_library == IF curses_library = "ncursesw" THEN "panelw" ELSE "panel"
        ncurses == startswith_ncurses(curses_library)
        plain == ~ncurses /\ curses_library = "curses" /\ ~MACOS
        curses_enabled == ncurses \/ plain
        curses_libs ==
            IF ncurses THEN <<curses_library>>
            ELSE IF finds("terminfo") THEN <<"curses", "terminfo">>
            ELSE IF finds("termcap") THEN <<"curses", "termcap">>
            ELSE <<"curses">>
        exts2 == IF ncurses
                 THEN Append(exts1, [Extension("_curses", << <<"_cursesmodule.c">> >>) EXCEPT
                                        !.include_dirs = curses_includes,
                                        !.define_macros = curses_defines,
                                        !.libraries = curses_libs])
                 ELSE IF plain
                 THEN Append(exts1, [Extension("_curses", << <<"_cursesmodule.c">> >>) EXCEPT
                                        !.define_macros = curses_defines,
                                        !.libraries = curses_libs])
                 ELSE exts1
        miss2 == IF curses_enabled THEN miss1 ELSE Append(miss1, "_curses")
        panel == curses_enabled /\ ~skip_curses_panel /\ finds(panel_library)
        exts3 == IF panel
                 THEN Append(exts2, [Extension("_curses_panel", << <<"_curses_panel.c">> >>) EXCEPT
                                        !.include_dirs = curses_includes,
                                        !.define_macros = curses_defines,
                                        !.libraries = <<panel_library>> \o curses_libs])
                 ELSE exts2
        miss3 == IF ~panel /\ ~skip_curses_panel THEN Append(miss2, "_curses_panel")
                 ELSE miss2
    IN  IF probe.raised # "" THEN Detected(probe.files, exts, miss, probe.raised)
        ELSE Detected(probe.files, exts3, miss3, "")

\* macosx_sdk_specified(): CFLAGS names a root other than '/' with -isysroot
macosx_sdk_specified ==
    /\ config_set("CFLAGS")
    /\ \E i \in DOMAIN config_vars["CFLAGS"] :
          /\ config_vars["CFLAGS"][i].switch = "-isysroot"
          /\ config_vars["CFLAGS"][i].path # <<"/">>

\* what a stage of the tkinter detection leaves: the file system, the
\* registry, whether it found Tcl/Tk, the exception it raised, the stages
\* that ran and what was announced
Staged(files, exts, found, raised, stages, said) ==
    [files |-> files, extensions |-> exts, found |-> found, raised |-> raised,
     stages |-> stages, said |-> said]

tkinter_sources == << <<"_tkinter.c">>, <<"tkappinit.c">> >>

\* detect_tkinter_fromenv: both _TCLTK_INCLUDES and _TCLTK_LIBS are set and
\* not empty
tcltk_fromenv ==
    /\ "_TCLTK_INCLUDES" \in DOMAIN environ /\ environ["_TCLTK_INCLUDES"] # ""
    /\ "_TCLTK_LIBS" \in DOMAIN environ /\ environ["_TCLTK_LIBS"] # ""

detect_tkinter_fromenv(files, exts) ==
    IF ~tcltk_fromenv THEN Staged(files, exts, FALSE, "", <<"fromenv">>, <<>>)
    ELSE Staged(files,
                Append(exts, [Extension("_tkinter", tkinter_sources) EXCEPT
                                 !.define_macros = << <<"WITH_APPINIT", "1">> >>,
                                 !.extra_compile_args = <<environ["_TCLTK_INCLUDES"]>>,
                                 !.extra_link_args = <<environ["_TCLTK_LIBS"]>>]),
                TRUE, "", <<"fromenv">>, <<>>)

\* detect_tkinter_darwin: the first framework directory that holds both
\* Tcl.framework and Tk.framework; 'file' tells the architectures Tk was
\* built for through the temporary file tk.arch
detect_tkinter_darwin(files, exts, env) ==
    LET sysroot == MACOS_SDK_ROOT
        framework_dirs ==
            IF macosx_sdk_specified
            THEN <<join(sysroot, <<"Library", "Frameworks">>),
                   join(sysroot, <<"System", "Library", "Frameworks">>)>>
            ELSE << <<"/", "Library", "Frameworks">>,
                    join(sysroot, <<"System", "Library", "Frameworks">>)>>
        both(F) == /\ Append(normpath(join(F, <<"Tcl.framework">>)), "") \in files
                   /\ Append(normpath(join(F, <<"Tk.framework">>)), "") \in files
        holding == {i \in DOMAIN framework_dirs : both(framework_dirs[i])}
        F == framework_dirs[CHOOSE i \in holding : \A j \in holding : i <= j]
        cflags == config_vars["CFLAGS"]
        is_arch(w) == w.switch = "-arch"
        archs == {w.path : w \in {v \in Range(cflags) : is_arch(v)}}
        tmp == tmpfile("tk.arch")
        f1 == run_command_redirected(makedirs(files, build_temp), tmp, env.sh)
        known(a) == <<a>> \in archs
        detected_archs == SelectSeq(env.out, known)
        arch_args == [i \in 1..(2 * Len(detected_archs)) |->
                         IF i % 2 = 1 THEN "-arch" ELSE detected_archs[i \div 2]]
        strict == \E i \in DOMAIN cflags : cflags[i].switch = "-Wstrict-prototypes"
    IN  IF holding = {} THEN Staged(files, exts, FALSE, "", <<"darwin">>, <<>>)
        ELSE IF ~exists(f1, tmp)
        THEN Staged(f1, exts, FALSE, "FileNotFoundError", <<"darwin">>, <<>>)
        ELSE IF env.read = "raises"
        THEN Staged(f1, exts, FALSE, "OSError", <<"darwin">>, <<>>)
        ELSE Staged(os_remove(f1, tmp),
                    Append(exts, [Extension("_tkinter", tkinter_sources) EXCEPT
                                     !.define_macros = << <<"WITH_APPINIT", "1">> >>,
                                     !.include_dirs =
                                         <<join(F, <<"Tcl.framework", "Headers">>),
                                           join(F, <<"Tk.framework", "Headers">>)>>,
                                     !.extra_compile_args =
                                         <<"-F">> \o arch_args
                                             \o (IF strict THEN <<"-Wno-strict-prototypes">>
                                                 ELSE <<>>),
                                     !.extra_link_args =
                                         <<"-Wl,-F,-framework,Tcl,-framework,Tk">>
                                             \o arch_args]),
                    TRUE, "", <<"darwin">>, <<>>)

\* the versions detect_tkinter tries, in its order
tk_versions == <<"8.6", "86", "8.5", "85", "8.4", "84", "8.3", "83",
                 "8.2", "82", "8.1", "81", "8.0", "80">>

\* dotversion[:-1] + '.' + dotversion[-1] of a version without a dot
dotted(version) ==
    CASE version = "86" -> "8.6" [] version = "85" -> "8.5"
      [] version = "84" -> "8.4" [] version = "83" -> "8.3"
      [] version = "82" -> "8.2" [] version = "81" -> "8.1"
      [] version = "80" -> "8.0" [] OTHER -> version

has_dot(version) == dotted(version) = version

\* "bsd" in HOST_PLATFORM.lower()
is_bsd == HOST_PLATFORM \in {"freebsd", "openbsd", "netbsd"}

\* detect_tkinter, lines 1733-1834: the search of the standard Unix
\* directories.  env.libraries are the libraries the compiler finds.
detect_tkinter_unix(files, exts, env) ==
    LET finds(name) == name \in env.libraries
        both == {i \in DOMAIN tk_versions :
                    finds("tk" \o tk_versions[i]) /\ finds("tcl" \o tk_versions[i])}
        version == tk_versions[CHOOSE i \in both : \A j \in both : i <= j]
        dotversion == IF ~has_dot(version) /\ is_bsd THEN dotted(version) ELSE version
        tcl_include_sub == [i \in DOMAIN inc_dirs |-> Append(inc_dirs[i], "tcl" \o dotversion)]
        tk_include_sub == [i \in DOMAIN inc_dirs |-> Append(inc_dirs[i], "tk" \o dotversion)]
                              \o tcl_include_sub
        tcl_includes == find_file(<<"tcl.h">>, inc_dirs, tcl_include_sub)
        tk_includes == find_file(<<"tk.h">>, inc_dirs, tk_include_sub)
        there(path) == Append(normpath(path), "") \in files \/ exists(files, path)
        x11 == IF HOST_PLATFORM = "sunos5"
               THEN [inc |-> <<"/", "usr", "openwin", "include">>,
                     libs |-> << <<"/", "usr", "openwin", "lib">> >>]
               ELSE IF there(<<"/", "usr", "X11R6", "include">>)
               THEN [inc |-> <<"/", "usr", "X11R6", "include">>,
                     libs |-> << <<"/", "usr", "X11R6", "lib64">>,
                                 <<"/", "usr", "X11R6", "lib">> >>]
               ELSE IF there(<<"/", "usr", "X11R5", "include">>)
               THEN [inc |-> <<"/", "usr", "X11R5", "include">>,
                     libs |-> << <<"/", "usr", "X11R5", "lib">> >>]
               ELSE [inc |-> <<"/", "usr", "X11", "include">>,
                     libs |-> << <<"/", "usr", "X11", "lib">> >>]
        include_dirs == Append(first_occurrences(tcl_includes.dirs \o tk_includes.dirs, {}), x11.inc)
        blt == IF finds("BLT8.0") THEN <<"BLT8.0">>
               ELSE IF finds("BLT") THEN <<"BLT">> ELSE <<>>
        libs == blt \o <<"tk" \o version, "tcl" \o version>>
                    \o (IF CYGWIN THEN <<>> ELSE <<"X11">>)
    IN  IF both = {} \/ tcl_includes = NotFound \/ tk_includes = NotFound
        THEN Staged(files, exts, FALSE, "", <<"unix">>,
                    <<announce("INFO: Can't locate Tcl/Tk libs and/or headers", "")>>)
        ELSE IF CYGWIN /\ find_file(<<"X11", "Xlib.h">>, <<>>, include_dirs) = NotFound
        THEN Staged(files, exts, FALSE, "", <<"unix">>, <<>>)
        ELSE Staged(files,
                    Append(exts, [Extension("_tkinter", tkinter_sources) EXCEPT
                                     !.define_macros =
                                         << <<"WITH_APPINIT", "1">> >>
                                             \o (IF blt # <<>> THEN << <<"WITH_BLT", "1">> >>
                                                 ELSE <<>>),
                                     !.include_dirs = include_dirs,
                                     !.libraries = libs,
                                     !.library_dirs = x11.libs]),
                    TRUE, "", <<"unix">>, <<>>)

\* detect_tkinter as it would be if a successful environment stage did not
\* end the detection
detect_tkinter_runs_on(files, exts, env) ==
    LET fromenv == detect_tkinter_fromenv(files, exts)
        unix == detect_tkinter_unix(fromenv.files, fromenv.extensions, env)
    IN  [unix EXCEPT !.stages = fromenv.stages \o @, !.found = @ \/ fromenv.found]

\* detect_tkinter: the environment, then the macOS frameworks, then the
\* Unix directories; the first stage that finds Tcl/Tk ends it
detect_tkinter(files, exts, env) ==
    LET fromenv == detect_tkinter_fromenv(files, exts)
        darwin == detect_tkinter_darwin(files, exts, env)
        after == IF MACOS THEN fromenv.stages \o darwin.stages ELSE fromenv.stages
        unix == detect_tkinter_unix(IF MACOS THEN darwin.files ELSE files, exts, env)
    IN  IF fromenv.found THEN fromenv
        ELSE IF MACOS /\ (darwin.found \/ darwin.raised # "")
        THEN [darwin EXCEPT !.stages = after]
        ELSE [unix EXCEPT !.stages = after \o @]

\* what the shell and the reading of a temporary file can do
ShellOutcomes == {[created |-> TRUE, status |-> 0], [created |-> TRUE, status |-> 1],
                  [created |-> FALSE, status |-> 1]}
ReadOutcomes == {"ok", "raises"}

\* a probe: what the shell did, how reading went and what was read; a
\* command that failed or an output that could not be read has no output
ProbeOutcomes(outputs, nothing) ==
    {e \in [sh : ShellOutcomes, read : ReadOutcomes, out : outputs] :
        (e.sh.status # 0 \/ e.read = "raises") => (e.read = "ok" \/ e.sh.status = 0) /\ e.out = nothing}

MultiarchProbes == ProbeOutcomes({"", "x86_64-linux-gnu"}, "")
MultiarchEnvs ==
    {[sh1 |-> a.sh, read1 |-> a.read, out1 |-> a.out, dpkg |-> dpkg,
      sh2 |-> b.sh, read2 |-> b.read, out2 |-> b.out]
       : a \in MultiarchProbes, b \in MultiarchProbes, dpkg \in BOOLEAN}

WrccProbes == ProbeOutcomes({<<>>, << <<"/", "opt", "wr", "lib">> >>}, <<>>)

CcNothing == [compiler |-> "other", library_path |-> <<>>, incdirs |-> <<>>]
CcOutputs ==
    {CcNothing,
     [compiler |-> "gcc",
      library_path |-> << <<"/", "usr", "lib", "gcc", "arm">>, <<"/", "opt", "cross", "lib", "">> >>,
      incdirs |-> << <<"/", "usr", "lib", "gcc", "include">>, <<"/", "opt", "cross", "include">> >>],
     [compiler |-> "other",
      library_path |-> << <<"/", "opt", "cross", "lib">> >>,
      incdirs |-> << <<"/", "opt", "cross", "include">> >>]}
CcProbes == ProbeOutcomes(CcOutputs, CcNothing)
CcEnvs ==
    {[sh |-> a.sh, read |-> a.read, out |-> a.out, wrcc |-> w]
       : a \in CcProbes, w \in WrccProbes}

ReadlineProbes == ProbeOutcomes({<<"c">>, <<"tinfo", "c">>, <<"c", "ncursesw", "tinfo">>}, <<"c">>)
ReadlineLibraries ==
    {{}, {"readline"}, {"readline", "ncursesw", "panelw"},
     {"edit", "ncurses", "panel"}, {"readline", "curses", "terminfo", "panel"},
     {"readline", "ncursesw"}}
ReadlineAnswers ==
    {[sh |-> a.sh, read |-> a.read, out |-> a.out, ldd |-> ldd,
      libraries |-> libraries, termcap |-> termcap, os_release |-> os_release]
       : a \in ReadlineProbes, ldd \in BOOLEAN,
         libraries \in ReadlineLibraries,
         termcap \in BOOLEAN, os_release \in {8, 20}}

\* termcap is looked for only when no curses library was found; the release
\* of the system matters where readline is installed
ReadlineEnvs ==
    {e \in ReadlineAnswers :
        /\ e.termcap => e.libraries = {"readline"}
        /\ e.os_release = 8 => e.libraries \in {{"readline"}, {"readline", "ncursesw", "panelw"}}}

TkProbes == ProbeOutcomes({<<>>, <<"x86_64", "arm64">>}, <<>>)
TkEnvs ==
    {[sh |-> a.sh, read |-> a.read, out |-> a.out, libraries |-> libraries]
       : a \in TkProbes,
         libraries \in {{}, {"tk8.6", "tcl8.6"}, {"tk8.6", "tcl8.5"}, {"tk86", "tcl86", "BLT"}}}

\* the directories and headers of a host
ProbeBase == {<<"/", "usr", "lib", "">>, <<"/", "usr", "include", "">>,
              <<"/", "opt", "cross", "lib", "">>, <<"/", "opt", "cross", "include", "">>,
              <<"/", "opt", "wr", "lib", "">>}
ProbeFileSystems ==
    {ProbeBase,
     ProbeBase \cup {<<"/", "usr", "lib", "x86_64-linux-gnu", "">>,
                     <<"/", "usr", "include", "x86_64-linux-gnu", "">>,
                     <<"/", "usr", "include", "tcl.h">>, <<"/", "usr", "include", "tk.h">>,
                     <<"/", "usr", "include", "X11", "Xlib.h">>,
                     <<"/", "usr", "X11", "include", "X11", "Xlib.h">>},
     ProbeBase \cup {<<"/", "Library", "Frameworks", "Tcl.framework", "">>,
                     <<"/", "Library", "Frameworks", "Tk.framework", "">>,
                     <<"/", "usr", "X11R6", "include", "">>,
                     <<"/", "usr", "include", "tcl8.6", "tcl.h">>,
                     <<"/", "usr", "include", "tcl8.6", "tk.h">>},
     ProbeBase \cup {<<"/", "SDK", "System", "Library", "Frameworks", "Tcl.framework", "">>,
                     <<"/", "SDK", "System", "Library", "Frameworks", "Tk.framework", "">>,
                     <<"/", "SDK", "usr", "include", "tcl.h">>}}

ProbePlatforms == {"linux", "darwin", "aix", "vxworks", "cygwin"}

\* os.environ: a cross-build or not, the Tcl/Tk strings of the Makefile
ProbeEnvirons ==
    {<<>>,
     [_PYTHON_HOST_PLATFORM |-> "linux-arm"],
     [_TCLTK_INCLUDES |-> "-I/opt/tcl/include", _TCLTK_LIBS |-> "-ltk8.6 -ltcl8.6"],
     [_TCLTK_INCLUDES |-> "-I/opt/tcl/include", _TCLTK_LIBS |-> ""],
     [_PYTHON_HOST_PLATFORM |-> "linux-arm",
      _TCLTK_INCLUDES |-> "-I/opt/tcl/include", _TCLTK_LIBS |-> "-ltk8.6 -ltcl8.6"]}

\* CFLAGS with the SDK root it leaves
ProbeCflags ==
    {[cflags |-> <<word("-O", <<"2">>)>>, root |-> <<"/">>],
     [cflags |-> <<word("-arch", <<"x86_64">>), word("-Wstrict-prototypes", <<>>)>>,
      root |-> <<"/", "SDK">>],
     [cflags |-> <<word("-isysroot", <<"/", "SDK">>), word("-arch", <<"arm64">>)>>,
      root |-> <<"/", "SDK">>]}

\* no routine has ended and no stage of the tkinter detection has run
NothingRan == [ran |-> {}, stages |-> <<>>, found |-> FALSE]

InitProbe ==
    /\ InitObject
    /\ extensions = <<>> /\ todo = <<>>
    /\ DISABLED_MODULE_LIST = {} /\ LIST_MODULE_NAMES = FALSE
    /\ HOST_PLATFORM \in ProbePlatforms
    /\ environ \in ProbeEnvirons
    /\ (HOST_PLATFORM = "vxworks" => "_PYTHON_HOST_PLATFORM" \in DOMAIN environ)
    /\ pc = IF "_PYTHON_HOST_PLATFORM" \in DOMAIN environ
            THEN "add_cross_compiling_paths" ELSE "add_multiarch_paths"
    /\ \E c \in ProbeCflags, readline \in BOOLEAN, editline \in BOOLEAN, old \in BOOLEAN :
          LET given == [srcdir |-> [set |-> TRUE, value |-> <<"/", "src">>],
                        CFLAGS |-> [set |-> TRUE, value |-> c.cflags],
                        HAVE_LIBREADLINE |-> [set |-> readline, value |-> 1],
                        WITH_EDITLINE |-> [set |-> readline /\ editline, value |-> 1],
                        MACOSX_DEPLOYMENT_TARGET |->
                            [set |-> HOST_PLATFORM = "darwin" /\ old, value |-> <<10, 4>>]]
          IN  /\ config_vars = [n \in {k \in DOMAIN given : given[k].set} |-> given[n].value]
              /\ MACOS_SDK_ROOT = IF HOST_PLATFORM = "darwin" THEN c.root ELSE <<"/">>
              /\ (HOST_PLATFORM # "darwin" => c.root = <<"/">> /\ ~old)
    /\ fs \in ProbeFileSystems
    /\ self_compiler = [NoCompilerDirs EXCEPT !.include_dirs = << <<".">>, <<"Include">> >>]
    /\ lib_dirs = system_lib_dirs /\ inc_dirs = system_include_dirs
    /\ output = <<>> /\ result = "running" /\ ret = <<>>
    /\ args = NothingRan

\* where detection goes after a routine that left the exception raised
after_probe(raised, next) == IF raised = "" THEN next ELSE "raised"
probe_result(raised) == IF raised = "" THEN result ELSE raised

\* configure_compiler, line 915: self.add_cross_compiling_paths()
AddCrossCompilingPaths ==
    /\ pc = "add_cross_compiling_paths"
    /\ \E env \in CcEnvs :
          LET left == add_cross_compiling_paths(fs, self_compiler, env)
          IN  /\ fs' = left.files
              /\ self_compiler' = left.comp
              /\ pc' = after_probe(left.raised, "add_multiarch_paths")
              /\ result' = probe_result(left.raised)
              /\ args' = [args EXCEPT !.ran = @ \cup {"add_cross_compiling_paths"}]
    /\ UNCHANGED <<extensions, missing, disabled_configure, failed,
                   failed_on_import, mods_built, mods_disabled,
                   DISABLED_MODULE_LIST, LIST_MODULE_NAMES, HOST_PLATFORM,
                   MACOS_SDK_ROOT, config_vars, environ, todo, output,
                   ret, lib_dirs, inc_dirs>>

\* configure_compiler, line 916: self.add_multiarch_paths()
AddMultiarchPaths ==
    /\ pc = "add_multiarch_paths"
    /\ \E env \in MultiarchEnvs :
          LET left == add_multiarch_paths(fs, self_compiler, env)
          IN  /\ fs' = left.files
              /\ self_compiler' = left.comp
              /\ pc' = after_probe(left.raised, "detect_readline_curses")
              /\ result' = probe_result(left.raised)
              /\ args' = [args EXCEPT !.ran = @ \cup {"add_multiarch_paths"}]
    /\ UNCHANGED <<extensions, missing, disabled_configure, failed,
                   failed_on_import, mods_built, mods_disabled,
                   DISABLED_MODULE_LIST, LIST_MODULE_NAMES, HOST_PLATFORM,
                   MACOS_SDK_ROOT, config_vars, environ, todo, output,
                   ret, lib_dirs, inc_dirs>>

\* detect_modules, line 1505: self.detect_readline_curses()
DetectReadlineCurses ==
    /\ pc = "detect_readline_curses"
    /\ \E env \in ReadlineEnvs :
          LET left == detect_readline_curses(fs, extensions, missing, env)
          IN  /\ fs' = left.files
              /\ extensions' = left.extensions
              /\ missing' = left.missing
              /\ pc' = after_probe(left.raised, "detect_tkinter")
              /\ result' = probe_result(left.raised)
              /\ args' = [args EXCEPT !.ran = @ \cup {"detect_readline_curses"}]
    /\ UNCHANGED <<disabled_configure, failed,
                   failed_on_import, mods_built, mods_disabled,
                   DISABLED_MODULE_LIST, LIST_MODULE_NAMES, HOST_PLATFORM,
                   MACOS_SDK_ROOT, config_vars, environ, todo, output,
                   ret, self_compiler, lib_dirs, inc_dirs>>

\* detect_modules, lines 1520-1521:
\* if not self.detect_tkinter(): self.missing.append('_tkinter')
DetectTkinter ==
    /\ pc = "detect_tkinter"
    /\ \E env \in TkEnvs :
          LET left == detect_tkinter(fs, extensions, env)
          IN  /\ fs' = left.files
              /\ extensions' = left.extensions
              /\ missing' = IF left.raised = "" /\ ~left.found
                            THEN Append(missing, "_tkinter") ELSE missing
              /\ output' = output \o left.said
              /\ pc' = after_probe(left.raised, "detected")
              /\ result' = probe_result(left.raised)
              /\ args' = [args EXCEPT !.stages = left.stages, !.found = left.found,
                                      !.ran = @ \cup {"detect_tkinter"}]
    /\ UNCHANGED <<disabled_configure, failed,
                   failed_on_import, mods_built, mods_disabled,
                   DISABLED_MODULE_LIST, LIST_MODULE_NAMES, HOST_PLATFORM,
                   MACOS_SDK_ROOT, config_vars, environ, todo,
                   ret, self_compiler, lib_dirs, inc_dirs>>

NextProbe ==
    \/ AddCrossCompilingPaths
    \/ AddMultiarchPaths
    \/ DetectReadlineCurses
    \/ DetectTkinter

SpecProbe == InitProbe /\ [][NextProbe]_vars

\* the temporary files of each routine
TempFilesOf(routine) ==
    CASE routine = "add_cross_compiling_paths" -> {"ccpaths", "wrccpaths"}
      [] routine = "add_multiarch_paths" -> {"multiarch"}
      [] routine = "detect_readline_curses" -> {"readline_termcap_lib"}
      [] routine = "detect_tkinter" -> {"tk.arch"}

Gone(name) == ~exists(fs, tmpfile(name))

\* C21 as stated: once a probing routine has returned or raised, its
\* temporary file does not exist, also when the command failed or its output
\* could not be read.
C21_TempFilesRemovedOnEveryExit ==
    \A routine \in args.ran : \A name \in TempFilesOf(routine) : Gone(name)

\* what holds: the files of add_cross_compiling_paths, add_wrcc_search_dirs
\* and add_multiarch_paths are gone however the routine ended, and every
\* temporary file is gone after a routine that returned
C21_TempFilesRemovedWhereFinallyOrReturn ==
    /\ \A routine \in args.ran \cap {"add_cross_compiling_paths", "add_multiarch_paths"} :
          \A name \in TempFilesOf(routine) : Gone(name)
    /\ result = "running" =>
          \A routine \in args.ran : \A name \in TempFilesOf(routine) : Gone(name)

\* add_multiarch_paths raised because its output could not be read, and
\* its file is gone
C21_Witness ==
    /\ pc = "raised" /\ result = "OSError"
    /\ "add_multiarch_paths" \in args.ran /\ "detect_readline_curses" \notin args.ran
    /\ Gone("multiarch")
    /\ Append(build_temp, "") \in fs

(***************************************************************************)
(* Build failures in a run (run-level).                                    *)
(***************************************************************************)
\* a step of check_extension_import that loads the module
LoadsHead ==
    CheckExtensionImportOk \/ CheckExtensionImportError \/ CheckExtensionImportRaises

\* C22: a compile or link error of one candidate puts its name in the
\* build-failed list exactly once and does not end the run: the other
\* candidates stay with the toolchain, the build phase ends only with the
\* last candidate, and the import check never loads a candidate whose build
\* failed.
C22_BuildFailureIsRecordedOnceAndLocal ==
    /\ [][BuildExtensionFails =>
             \E i \in DOMAIN todo :
                /\ ~Contains(failed, todo[i].name)
                /\ failed' = Append(failed, todo[i].name)
                /\ Occurrences(failed', todo[i].name) = 1
                /\ result' = "running"
                /\ IF Len(todo) > 1
                   THEN pc' = "build" /\ todo' = pop(todo, i)
                   ELSE pc' = "check" /\ todo' = extensions]_vars
    /\ [][(pc = "build" /\ pc' # "build") => Len(todo) = 1 /\ pc' = "check"]_vars
    /\ [][LoadsHead => ~Contains(failed, Head(todo).name)]_vars
    /\ [](NoDuplicates(failed))

\* a run in which the first of two candidates failed to build, the second
\* was built, and the import check has passed over the first
C22_Witness ==
    /\ pc = "check" /\ Len(extensions) = 2 /\ todo = Tail(extensions)
    /\ failed = <<extensions[1].name>>
    /\ exists(fs, get_ext_fullpath(extensions[2].name))
    /\ result = "running"

(***************************************************************************)
(* Properties of the tkinter and curses detection.                         *)
(***************************************************************************)
TkinterDetected == "detect_tkinter" \in args.ran /\ result = "running"
TkinterCandidates == SelectSeq(extensions, LAMBDA ext : ext.name = "_tkinter")

\* the stage a _tkinter candidate comes from: the environment stage alone
\* gives link arguments without include directories, the Unix stage alone
\* gives libraries
StageOf(ext) ==
    IF ext.libraries # <<>> THEN "unix"
    ELSE IF ext.include_dirs # <<>> THEN "darwin"
    ELSE "fromenv"

\* C23: the tkinter detection stops at the first stage that succeeds.  When
\* both environment strings are set only the environment stage runs; the
\* macOS stage runs only on macOS and, when it succeeds, the Unix search does
\* not run; at most one _tkinter candidate is registered, by the last stage
\* that ran; '_tkinter' is in the missing list exactly when no stage
\* succeeded.
C23_TkinterStopsAtFirstSuccess ==
    TkinterDetected =>
        /\ args.stages \in {<<"fromenv">>, <<"fromenv", "darwin">>,
                            <<"fromenv", "unix">>, <<"fromenv", "darwin", "unix">>}
        /\ tcltk_fromenv => args.stages = <<"fromenv">>
        /\ Contains(args.stages, "darwin") <=> (MACOS /\ ~tcltk_fromenv)
        /\ Len(TkinterCandidates) <= 1
        /\ TkinterCandidates # <<>> =>
              StageOf(TkinterCandidates[1]) = args.stages[Len(args.stages)]
        /\ Contains(missing, "_tkinter") <=> TkinterCandidates = <<>>
        /\ Occurrences(missing, "_tkinter") <= 1

\* on macOS the framework stage registered the candidate and the Unix
\* search did not run, although the Unix libraries and headers are there
C23_Witness ==
    /\ TkinterDetected /\ MACOS
    /\ args.stages = <<"fromenv", "darwin">>
    /\ Len(TkinterCandidates) = 1
    /\ ~Contains(missing, "_tkinter")
    /\ exists(fs, <<"/", "usr", "include", "tcl8.6", "tcl.h">>)

\* detect_readline_curses has returned
CursesDetected ==
    /\ "detect_readline_curses" \in args.ran
    /\ (pc = "raised" => "detect_tkinter" \in args.ran)
Registered(name) == \E i \in DOMAIN extensions : extensions[i].name = name

\* C24: after detect_readline_curses a _curses_panel candidate is registered
\* only if a _curses candidate is; on AIX _curses_panel is neither
\* registered nor in the missing list; on every other host it is either
\* registered or in the missing list, and not both.
C24_CursesPanelFollowsCurses ==
    CursesDetected =>
        /\ Registered("_curses_panel") => Registered("_curses")
        /\ AIX => ~Registered("_curses_panel") /\ ~Contains(missing, "_curses_panel")
        /\ ~AIX => (Registered("_curses_panel") <=> ~Contains(missing, "_curses_panel"))

\* an AIX host where _curses is registered and _curses_panel is left out
C24_Witness ==
    /\ CursesDetected /\ AIX /\ Registered("_curses")
    /\ ~Registered("_curses_panel") /\ ~Contains(missing, "_curses_panel")
    /\ Contains(missing, "readline")

\* a Linux host where both are registered
C24_WitnessElsewhere ==
    /\ CursesDetected /\ HOST_PLATFORM = "linux"
    /\ Registered("_curses_panel") /\ Registered("_curses")

(***************************************************************************)
(* addext on its own: one call self.addext(ext) for every value of         *)
(* MODULE_{NAME}, MODULE_{NAME}_CFLAGS and MODULE_{NAME}_LDFLAGS.          *)
(***************************************************************************)
\* the longest MODULE_{NAME}_CFLAGS and MODULE_{NAME}_LDFLAGS together, in tokens
MaxTokens == 3

tok(switch, key) == [switch |-> switch, key |-> key, eq |-> FALSE, val |-> ""]
macro(key, val) == [switch |-> "-D", key |-> key, eq |-> TRUE, val |-> val]

\* shlex.split gives '' for an empty quoted word
EmptyWord == tok("", "")

\* -I/opt/include -DA -DA= -DA=1 -UB -Wall -L/opt/lib ''
CflagsTokens ==
    {tok("-I", "/opt/include"), tok("-D", "A"), macro("A", ""), macro("A", "1"),
     tok("-U", "B"), tok("-W", "all"), tok("-L", "/opt/lib"), EmptyWord}

\* -L/opt/lib -lz -lbexpat.a libmpdec.a -Wl,x.a -pthread -I/opt/include ''
LdflagsTokens ==
    {tok("-L", "/opt/lib"), tok("-l", "z"), tok("-l", "bexpat.a"),
     tok("li", "bmpdec.a"), tok("-W", "l,x.a"), tok("-p", "thread"),
     tok("-I", "/opt/include"), EmptyWord}

TokenLists(tokens, n) == UNION {[1..k -> tokens] : k \in 0..n}

\* the values of MODULE_{NAME}: the four the code names, one it does not
\* name, and the empty value
ModuleValues == {"yes", "disabled", "missing", "n/a", "maybe", ""}

\* a descriptor whose lists already hold an entry each
with_existing(ext) ==
    [ext EXCEPT !.include_dirs = <<[key |-> "Modules/expat", eq |-> FALSE, val |-> ""]>>,
                !.define_macros = << <<"HAVE_EXPAT_CONFIG_H", "1">> >>,
                !.undef_macros = <<[key |-> "NDEBUG", eq |-> FALSE, val |-> ""]>>,
                !.extra_compile_args = <<tok("-W", "no-unreachable-code")>>,
                !.library_dirs = <<[key |-> "/usr/local/lib", eq |-> FALSE, val |-> ""]>>,
                !.libraries = <<[key |-> "m", eq |-> FALSE, val |-> ""]>>,
                !.extra_objects = <<tok("li", "bexpat.a")>>,
                !.extra_link_args = <<tok("-f", "PIC")>>]

AddextCandidates ==
    {Extension("_decimal", << <<"_decimal", "_decimal.c">> >>),
     with_existing(Extension("pyexpat", << <<"pyexpat.c">> >>))}

\* a config store that sets the variables in given
only_set(given, store) == [k \in {n \in DOMAIN store : n \in given} |-> store[k]]

\* sysconfig.get_config_var(f"MODULE_{NAME}"), None when it is not set
module_state(name) ==
    IF config_set("MODULE") /\ upper(name) \in DOMAIN config_vars["MODULE"]
    THEN config_vars["MODULE"][upper(name)]
    ELSE None

InitAddext ==
    /\ pc = "addext"
    /\ extensions = <<Extension("_datetime", << <<"_datetimemodule.c">> >>)>>
    /\ missing = <<"_testcapi">> /\ disabled_configure = <<"_sqlite3">>
    /\ failed = <<>> /\ failed_on_import = <<>>
    /\ mods_built = <<>> /\ mods_disabled = <<>>
    /\ DISABLED_MODULE_LIST = {} /\ LIST_MODULE_NAMES = FALSE
    /\ HOST_PLATFORM = "linux" /\ MACOS_SDK_ROOT = <<"/">>
    /\ environ = <<>> /\ fs = {} /\ output = <<>> /\ result = "running"
    /\ args = <<>> /\ ret = <<>>
    /\ self_compiler = NoCompilerDirs /\ lib_dirs = <<>> /\ inc_dirs = <<>>
    /\ \E ext \in AddextCandidates :
          /\ todo = <<ext>>
          /\ \E state \in ModuleValues, given \in SUBSET {"MODULE"},
                cflags \in TokenLists(CflagsTokens, MaxTokens) :
             \E ldflags \in TokenLists(LdflagsTokens, MaxTokens - Len(cflags)) :
                /\ "MODULE" \notin given => state = ""
                /\ config_vars =
                      only_set(given \cup {"srcdir"}
                                     \cup (IF cflags = <<>> THEN {} ELSE {"MODULE_CFLAGS"})
                                     \cup (IF ldflags = <<>> THEN {} ELSE {"MODULE_LDFLAGS"}),
                               ("MODULE" :> (upper(ext.name) :> state)) @@
                               [srcdir |-> <<"/", "src">>,
                                MODULE_CFLAGS |-> (upper(ext.name) :> cflags),
                                MODULE_LDFLAGS |-> (upper(ext.name) :> ldflags)])

addext_frame == <<failed, failed_on_import, mods_built, mods_disabled,
                  DISABLED_MODULE_LIST, LIST_MODULE_NAMES, HOST_PLATFORM,
                  MACOS_SDK_ROOT, config_vars, environ, fs, output, args,
                  self_compiler, lib_dirs, inc_dirs>>

\* self.addext(ext); ret is the descriptor the caller passed, as the call leaves it
Addext ==
    /\ pc = "addext" /\ todo # <<>>
    /\ LET ext == Head(todo)
           reg == addext(registry, ext, module_state(ext.name))
       IN  /\ ret' = update_extension_flags(ext)
           /\ IF update_extension_flags_raises(ext)
              THEN /\ pc' = "raised" /\ result' = "IndexError"
                   /\ UNCHANGED <<extensions, missing, disabled_configure>>
              ELSE /\ pc' = "added" /\ result' = result
                   /\ extensions' = reg.extensions
                   /\ missing' = reg.missing
                   /\ disabled_configure' = reg.disabled_configure
    /\ todo' = Tail(todo)
    /\ UNCHANGED addext_frame

NextAddext == Addext

SpecAddext == InitAddext /\ [][NextAddext]_vars

\* the values of MODULE_{NAME}_CFLAGS and MODULE_{NAME}_LDFLAGS, as token lists
cflags_of(ext) ==
    IF config_set("MODULE_CFLAGS") THEN config_vars["MODULE_CFLAGS"][upper(ext.name)] ELSE <<>>
ldflags_of(ext) ==
    IF config_set("MODULE_LDFLAGS") THEN config_vars["MODULE_LDFLAGS"][upper(ext.name)] ELSE <<>>

\* a call of addext that returns
AddextReturns == pc = "addext" /\ pc' = "added"

\* C25: addext puts the candidate in exactly one place, chosen by the value
\* of MODULE_{NAME}: 'yes', no value or a value the code does not name puts
\* it at the end of the registry; 'disabled' puts its name at the end of the
\* disabled-by-configure list only; 'missing' puts its name at the end of
\* the missing list only; 'n/a' puts it nowhere.
C25_AddextPlacesByModuleState ==
    [][AddextReturns =>
         LET ext == Head(todo)
             state == module_state(ext.name)
             registered == /\ Len(extensions') = Len(extensions) + 1
                           /\ SubSeq(extensions', 1, Len(extensions)) = extensions
                           /\ extensions'[Len(extensions')].name = ext.name
             disabled == disabled_configure' = Append(disabled_configure, ext.name)
             absent == missing' = Append(missing, ext.name)
         IN  CASE state = "disabled" ->
                    disabled /\ UNCHANGED <<extensions, missing>>
               [] state = "missing" ->
                    absent /\ UNCHANGED <<extensions, disabled_configure>>
               [] state = "n/a" ->
                    UNCHANGED <<extensions, missing, disabled_configure>>
               [] OTHER ->
                    registered /\ UNCHANGED <<missing, disabled_configure>>]_vars

\* a candidate whose MODULE_{NAME} is 'maybe' has been registered
C25_Witness ==
    /\ pc = "added" /\ Len(extensions) = 2
    /\ config_set("MODULE")
    /\ \E n \in DOMAIN config_vars["MODULE"] : config_vars["MODULE"][n] = "maybe"

\* candidates that went to the missing list, to the disabled list, nowhere
C25_WitnessElsewhere ==
    /\ pc = "added" /\ Len(extensions) = 1
    /\ Len(missing) + Len(disabled_configure) = 2

(***************************************************************************)
(* The routing of the tokens, stated with filters.                         *)
(***************************************************************************)
values(tokens) == [i \in DOMAIN tokens |-> token_value(tokens[i])]
switched(switch, tokens) == SelectSeq(tokens, LAMBDA t : t.switch = switch)
macros(tokens) ==
    [i \in DOMAIN tokens |->
        <<tokens[i].key, IF tokens[i].eq /\ tokens[i].val # "" THEN tokens[i].val ELSE None>>]
is_object(t) ==
    /\ t.switch \notin {"-L", "-l"}
    /\ t.switch \notin DashSwitches
    /\ ~t.eq /\ t.key \in ObjectFileKeys
Routed(ext, cflags, ldflags, e) ==
    /\ e.include_dirs = ext.include_dirs \o values(switched("-I", cflags))
    /\ e.define_macros = ext.define_macros \o macros(switched("-D", cflags))
    /\ e.undef_macros = ext.undef_macros \o values(switched("-U", cflags))
    /\ e.extra_compile_args = ext.extra_compile_args
          \o SelectSeq(cflags, LAMBDA t : t.switch \notin {"-I", "-D", "-U"})
    /\ e.library_dirs = ext.library_dirs \o values(switched("-L", ldflags))
    /\ e.libraries = ext.libraries \o values(switched("-l", ldflags))
    /\ e.extra_objects = ext.extra_objects \o SelectSeq(ldflags, is_object)
    /\ e.extra_link_args = ext.extra_link_args
          \o SelectSeq(ldflags, LAMBDA t : t.switch \notin {"-L", "-l"} /\ ~is_object(t))
    /\ e.name = ext.name /\ e.sources = ext.sources
    /\ e.runtime_library_dirs = ext.runtime_library_dirs /\ e.depends = ext.depends

\* C27: update_extension_flags sends every token of MODULE_{NAME}_CFLAGS and
\* MODULE_{NAME}_LDFLAGS to exactly one list of the descriptor (-I, -D, -U,
\* else extra compile args; -L, -l, object files, else extra link args), in
\* the order of the tokens and after the entries the lists already hold.
C27_EveryTokenRouted ==
    [][pc = "addext" =>
         /\ pc' = "added"
         /\ Routed(Head(todo), cflags_of(Head(todo)), ldflags_of(Head(todo)), ret')]_vars

\* the same, for values of MODULE_{NAME}_LDFLAGS without an empty word; with
\* one, the call raises IndexError and the linker tokens before it are routed
C27_EveryTokenRoutedUnlessEmptyLinkerWord ==
    [][pc = "addext" =>
         LET ext == Head(todo)
             ldflags == ldflags_of(ext)
             first == CHOOSE i \in DOMAIN ldflags :
                         /\ empty_word(ldflags[i])
                         /\ \A j \in 1..(i - 1) : ~empty_word(ldflags[j])
         IN  IF raises_IndexError(ldflags)
             THEN /\ pc' = "raised" /\ result' = "IndexError"
                  /\ Routed(ext, cflags_of(ext), SubSeq(ldflags, 1, first - 1), ret')
                  /\ UNCHANGED <<extensions, missing, disabled_configure>>
             ELSE /\ pc' = "added"
                  /\ Routed(ext, cflags_of(ext), ldflags, ret')]_vars

\* two tokens have gone to two lists of a descriptor that held entries
C27_Witness ==
    /\ pc = "added" /\ ret # <<>>
    /\ Len(ret.define_macros) = 2 /\ ret.define_macros[2] = <<"A", None>>
    /\ Len(ret.extra_objects) = 2

\* an empty word in MODULE_{NAME}_LDFLAGS has ended the call
C27_WitnessRaised ==
    /\ pc = "raised" /\ result = "IndexError" /\ ret # <<>>
    /\ Len(ret.libraries) = 1

(***************************************************************************)
(* The order of the phases of a run (run-level specification).             *)
(***************************************************************************)
\* the names the reconciliation takes out of the registry
ReconciledAway ==
    config_vars["MODBUILT_NAMES"] \cup config_vars["MODDISABLED_NAMES"]

\* the position of a phase in build_extensions
PhaseRank(phase) ==
    CASE phase = "set_srcdir" -> 0
      [] phase = "detect" -> 1
      [] phase = "remove_disabled" -> 2
      [] phase = "update_sources_depends" -> 3
      [] phase = "handle_configured_extensions" -> 4
      [] phase = "list" -> 5
      [] phase = "build" -> 5
      [] phase = "check" -> 6
      [] phase = "summary" -> 7
      [] phase = "done" -> 8

\* a step of the toolchain on candidate ext: it leaves an artifact or
\* records a failed build
Attempts(ext) ==
    \/ fs' = fs \cup {get_ext_fullpath(ext.name)} /\ failed' = failed
    \/ fs' = fs /\ failed' = Append(failed, ext.name)

\* C26: the phases of a run are strictly ordered.  No candidate is built
\* before detection, reordering, path rewriting and reconciliation are
\* over; no import check runs before the toolchain has attempted every
\* candidate; the summary comes only after every candidate has been
\* import-checked or skipped; a candidate the reconciliation removed is
\* neither compiled nor import-checked.
C26_PhasesStrictlyOrdered ==
    /\ [][PhaseRank(pc') >= PhaseRank(pc)]_vars
    /\ [][pc' = "build" /\ pc # "build" =>
             /\ pc = "handle_configured_extensions"
             /\ todo' = extensions' /\ ~LIST_MODULE_NAMES]_vars
    /\ [][pc' = "handle_configured_extensions" => pc = "update_sources_depends"]_vars
    /\ [][pc' = "update_sources_depends" =>
             \/ pc = "remove_disabled"
             \/ pc = "detect" /\ todo' = <<>> /\ LIST_MODULE_NAMES]_vars
    /\ [][pc' = "remove_disabled" => pc = "detect" /\ todo' = <<>>]_vars
    /\ [][(pc \notin {"build", "check"}) =>
             /\ failed' = failed /\ failed_on_import' = failed_on_import
             /\ \A f \in fs' \ fs : FALSE]_vars
    /\ [][(pc \in {"build", "check", "summary"}) => extensions' = extensions]_vars
    /\ [][pc = "build" =>
             \E i \in DOMAIN todo :
                /\ Attempts(todo[i])
                /\ Contains(extensions, todo[i])
                /\ IF Len(todo) = 1
                   THEN pc' = "check" /\ todo' = extensions
                   ELSE pc' = "build" /\ todo' = pop(todo, i)]_vars
    /\ [][pc' = "check" /\ pc # "check" => pc = "build" /\ Len(todo) = 1]_vars
    /\ [][pc = "check" =>
             /\ todo # <<>> /\ Contains(extensions, Head(todo))
             /\ todo' = Tail(todo)
             /\ pc' = IF todo' = <<>> THEN "summary" ELSE "check"]_vars
    /\ [][pc' = "summary" =>
             \/ pc = "check" /\ Len(todo) = 1
             \/ pc = "handle_configured_extensions" /\ extensions' = <<>>]_vars
    /\ [](pc \in {"build", "check"} =>
             \A i \in DOMAIN todo :
                /\ todo[i].name \notin ReconciledAway
                /\ todo[i].name \notin DISABLED_MODULE_LIST)

\* a run reaches the summary after the reconciliation removed a candidate,
\* one build failed and one import check was made on each of two candidates
C26_Witness ==
    /\ pc = "summary" /\ todo = <<>>
    /\ mods_built \o mods_disabled # <<>>
    /\ failed # <<>> /\ Len(extensions) = 2

(***************************************************************************)
(* What summary() does to the lists it reports.                            *)
(***************************************************************************)
\* lst.sort(key=str.lower) and the padding, told without the sort routine:
\* after holds the entries of before in an order that str.lower accepts,
\* followed by fewer than three empty entries that make its length a
\* multiple of three
SortedAndPadded(before, after) ==
    /\ Len(after) >= Len(before) /\ Len(after) < Len(before) + 3
    /\ Len(after) % 3 = 0
    /\ \A i \in (Len(before) + 1)..Len(after) : after[i] = ""
    /\ \A n \in ReportNames :
          Occurrences(SubSeq(after, 1, Len(before)), n) = Occurrences(before, n)
    /\ \A i, j \in 1..Len(before) :
          i < j => lower_rank(after[i]) <= lower_rank(after[j])

\* C29: summary() leaves the missing list, the disabled-by-configure list,
\* the build-failed list and the import-failed list as they were: the same
\* names in the same order, and no empty entries added.
C29_SummaryLeavesListsUnchanged ==
    [][pc = "summary" =>
         /\ missing' = missing /\ disabled_configure' = disabled_configure
         /\ failed' = failed /\ failed_on_import' = failed_on_import]_vars

\* what holds instead: the two failure lists are printed from copies and
\* stay as they were; the missing list and the disabled-by-configure list
\* are sorted and padded in place when they are not empty
C29_SummarySortsAndPadsInPlace ==
    [][pc = "summary" =>
         /\ failed' = failed /\ failed_on_import' = failed_on_import
         /\ SortedAndPadded(missing, missing')
         /\ SortedAndPadded(disabled_configure, disabled_configure')]_vars

\* a summary that reordered the missing list and added an empty entry to it
C29_Witness ==
    /\ pc = "done" /\ Len(args.missing) = 2 /\ Len(missing) = 3
    /\ missing[1] # args.missing[1] /\ missing[3] = ""
    /\ failed # <<>>

(***************************************************************************)
(* detect_modules from its first detector to its last: the registry and    *)
(* the missing list of a whole detection pass.                             *)
(***************************************************************************)
MS_WINDOWS == HOST_PLATFORM = "win32"

\* self.compiler.find_library_file(self.lib_dirs, name) finds a library:
\* args.libraries are the libraries installed on the host
compiler_finds(name) == name \in args.libraries

simple(name, file) == Extension(name, << <<file>> >>)
with_libraries(ext, libs) == [ext EXCEPT !.libraries = libs]

\* self.add(ext) for each descriptor of exts, self.missing.extend(names)
add_all(reg, exts) == [reg EXCEPT !.extensions = @ \o exts]
missing_extend(reg, names) == [reg EXCEPT !.missing = @ \o names]

\* self.addext(ext) for each descriptor of exts, in order
RECURSIVE addext_all(_, _)
addext_all(reg, exts) ==
    IF exts = <<>> THEN reg
    ELSE addext_all(addext(reg, Head(exts), module_state(Head(exts).name)), Tail(exts))

\* the values of pyconfig.h (self.config_h_vars) are kept in the config
\* store of the model under their own names
detect_simple_extensions(reg) ==
    LET first == add_all(reg,
            <<simple("array", "arraymodule.c"), simple("_contextvars", "_contextvarsmodule.c"),
              with_libraries(simple("math", "mathmodule.c"), <<"m">>),
              with_libraries(simple("cmath", "cmathmodule.c"), <<"m">>)>>)
        dated == addext_all(first, <<simple("_datetime", "_datetimemodule.c")>>)
        plain == add_all(dated,
            <<simple("_zoneinfo", "_zoneinfo.c"), simple("_random", "_randommodule.c"),
              simple("_bisect", "_bisectmodule.c"), simple("_heapq", "_heapqmodule.c"),
              simple("_pickle", "_pickle.c"), simple("_json", "_json.c"),
              Extension("_lsprof", << <<"_lsprof.c">>, <<"rotatingtree.c">> >>),
              simple("unicodedata", "unicodedata.c"), simple("_opcode", "_opcode.c"),
              simple("_asyncio", "_asynciomodule.c"), simple("_queue", "_queuemodule.c"),
              simple("_statistics", "_statisticsmodule.c"), simple("_typing", "_typingmodule.c"),
              with_libraries(simple("fcntl", "fcntlmodule.c"),
                             IF config_set("FLOCK_NEEDS_LIBBSD") THEN <<"bsd">> ELSE <<>>)>>)
        grp == IF ~VXWORKS THEN add_all(plain, <<simple("grp", "grpmodule.c")>>) ELSE plain
        spwd == IF config_set("HAVE_GETSPNAM") \/ config_set("HAVE_GETSPENT")
                THEN add_all(grp, <<simple("spwd", "spwdmodule.c")>>)
                ELSE IF ~AIX THEN missing_extend(grp, <<"spwd">>)
                ELSE grp
    IN  add_all(spwd,
            <<simple("select", "selectmodule.c"), simple("mmap", "mmapmodule.c"),
              simple("syslog", "syslogmodule.c"),
              simple("_xxsubinterpreters", "_xxsubinterpretersmodule.c"),
              with_libraries(simple("audioop", "audioop.c"), <<"m">>),
              simple("_csv", "_csv.c"), simple("_posixsubprocess", "_posixsubprocess.c")>>)

detect_test_extensions(reg) ==
    addext_all(reg,
        <<simple("_testcapi", "_testcapimodule.c"),
          simple("_testinternalcapi", "_testinternalcapi.c"),
          simple("_testbuffer", "_testbuffer.c"),
          simple("_testimportmultiple", "_testimportmultiple.c"),
          simple("_testmultiphase", "_testmultiphase.c"),
          Extension("_xxtestfuzz", << <<"_xxtestfuzz", "_xxtestfuzz.c">>,
                                      <<"_xxtestfuzz", "fuzzer.c">> >>)>>)

\* detect_crypt as it would be without the return on VxWorks
detect_crypt_falls_through(reg) ==
    LET noted == IF VXWORKS THEN missing_extend(reg, <<"_crypt">>) ELSE reg
    IN  add_all(noted, <<with_libraries(simple("_crypt", "_cryptmodule.c"),
                            IF compiler_finds("crypt") THEN <<"crypt">> ELSE <<>>)>>)

detect_crypt(reg) ==
    IF VXWORKS THEN missing_extend(reg, <<"_crypt">>)
    ELSE add_all(reg, <<with_libraries(simple("_crypt", "_cryptmodule.c"),
                           IF compiler_finds("crypt") THEN <<"crypt">> ELSE <<>>)>>)

detect_socket(reg) == add_all(reg, <<simple("_socket", "socketmodule.c")>>)

detect_hash_builtins(reg) ==
    addext_all(reg,
        <<simple("_md5", "md5module.c"), simple("_sha1", "sha1module.c"),
          simple("_sha256", "sha256module.c"), simple("_sha512", "sha512module.c"),
          Extension("_sha3", << <<"_sha3", "sha3module.c">> >>),
          Extension("_blake2", << <<"_blake2", "blake2module.c">>,
                                  <<"_blake2", "blake2b_impl.c">>,
                                  <<"_blake2", "blake2s_impl.c">> >>)>>)

sqlite_sources ==
    [i \in 1..8 |->
        <<"_sqlite", <<"connection.c", "cursor.c", "microprotocols.c", "module.c",
                       "prepare_protocol.c", "row.c", "statement.c", "util.c">>[i]>>]

detect_sqlite(reg) == addext_all(reg, <<Extension("_sqlite3", sqlite_sources)>>)

detect_platform_specific_exts(reg) ==
    LET unix == IF ~MS_WINDOWS
                THEN add_all(reg, (IF ~VXWORKS THEN <<simple("termios", "termios.c")>> ELSE <<>>)
                                      \o <<simple("resource", "resource.c")>>)
                ELSE missing_extend(reg, <<"resource", "termios">>)
    IN  addext_all(unix, <<simple("ossaudiodev", "ossaudiodev.c"),
                           simple("_scproxy", "_scproxy.c")>>)

\* "nsl/libnsl" stands for a libnsl the compiler finds in the nsl
\* subdirectory of a library directory, here /usr/lib/nsl
detect_nis(reg) ==
    LET under(sub) == [i \in DOMAIN inc_dirs |-> join(inc_dirs[i], <<sub>>)]
        rpcsvc_inc == find_file(<<"rpcsvc", "yp_prot.h">>, inc_dirs, under("nsl"))
        rpc_inc == find_file(<<"rpc", "rpc.h">>, inc_dirs, under("tirpc"))
        in_subdir == ~compiler_finds("nsl") /\ compiler_finds("nsl/libnsl")
        libs == (IF compiler_finds("nsl") \/ in_subdir THEN <<"nsl">> ELSE <<>>)
                   \o (IF compiler_finds("tirpc") THEN <<"tirpc">> ELSE <<>>)
    IN  IF MS_WINDOWS \/ CYGWIN \/ HOST_PLATFORM = "qnx6"
        THEN missing_extend(reg, <<"nis">>)
        ELSE IF rpcsvc_inc.kind = "None" \/ rpc_inc.kind = "None"
        THEN missing_extend(reg, <<"nis">>)
        ELSE add_all(reg,
                <<[simple("nis", "nismodule.c") EXCEPT
                      !.libraries = libs,
                      !.library_dirs = IF in_subdir THEN << <<"/", "usr", "lib", "nsl">> >>
                                       ELSE <<>>,
                      !.include_dirs = rpcsvc_inc.dirs \o rpc_inc.dirs]>>)

detect_compress_exts(reg) ==
    LET have_zlib == config_set("HAVE_LIBZ")
        zlib == IF have_zlib
                THEN add_all(reg, <<with_libraries(simple("zlib", "zlibmodule.c"), <<"z">>)>>)
                ELSE missing_extend(reg, <<"zlib">>)
        binascii == add_all(zlib,
            <<[simple("binascii", "binascii.c") EXCEPT
                  !.define_macros = IF have_zlib THEN << <<"USE_ZLIB_CRC32", None>> >> ELSE <<>>,
                  !.libraries = IF have_zlib THEN <<"z">> ELSE <<>>]>>)
        bz2 == IF config_set("HAVE_LIBBZ2")
               THEN add_all(binascii, <<with_libraries(simple("_bz2", "_bz2module.c"), <<"bz2">>)>>)
               ELSE missing_extend(binascii, <<"_bz2">>)
    IN  IF config_set("HAVE_LIBLZMA")
        THEN add_all(bz2, <<with_libraries(simple("_lzma", "_lzmamodule.c"), <<"lzma">>)>>)
        ELSE missing_extend(bz2, <<"_lzma">>)

detect_expat_elementtree(reg) ==
    addext_all(reg, <<simple("pyexpat", "pyexpat.c"), simple("_elementtree", "_elementtree.c")>>)

detect_multibytecodecs(reg) ==
    LET locs == <<"kr", "jp", "cn", "tw", "hk", "iso2022">>
    IN  add_all(reg,
            <<Extension("_multibytecodec", << <<"cjkcodecs", "multibytecodec.c">> >>)>>
            \o [i \in DOMAIN locs |->
                   Extension("_codecs_" \o locs[i],
                             << <<"cjkcodecs", "_codecs_" \o locs[i] \o ".c">> >>)])

detect_decimal(reg) ==
    addext_all(reg, <<Extension("_decimal", << <<"_decimal", "_decimal.c">> >>)>>)

\* the descriptor of _ctypes as detect_ctypes leaves it: the search for
\* libffi and HAVE_LIBDL change its include_dirs, its compile arguments
\* and its libraries after it was registered.  args.ffi_symbols are the
\* functions grep_headers_for finds in the libffi headers.
ctypes_extension ==
    LET given == config_set("LIBFFI_INCLUDEDIR")
        ffi_in_sdk == join(MACOS_SDK_ROOT, <<"usr", "include", "ffi">>)
        apple == MACOS /\ ~given /\ exists(fs, ffi_in_sdk)
        ffi_inc_dirs ==
            inc_dirs \o (IF MACOS /\ ~given /\ ~apple
                         THEN << <<"/", "usr", "include", "ffi">> >> ELSE <<>>)
        found == find_file(<<"ffi.h">>, <<>>, ffi_inc_dirs)
        named == IF given THEN <<config_vars["LIBFFI_INCLUDEDIR"]>>
                 ELSE IF apple THEN <<ffi_in_sdk>>
                 ELSE IF found.kind = "None" THEN <<>>
                 ELSE found.dirs
        ffi_inc == IF named # <<>> /\ exists(fs, join(named[1], <<"ffi.h">>))
                   THEN named ELSE <<>>
        ffi_lib == IF apple THEN <<"ffi">>
                   ELSE IF ffi_inc = <<>> THEN <<>>
                   ELSE IF compiler_finds("ffi") THEN <<"ffi">>
                   ELSE IF compiler_finds("ffi_pic") THEN <<"ffi_pic">>
                   ELSE <<>>
        system_ffi == ffi_inc # <<>> /\ ffi_lib # <<>>
        has(symbol, define) ==
            IF system_ffi /\ symbol \in args.ffi_symbols
            THEN <<flag("-D", define)>> ELSE <<>>
    IN  [Extension("_ctypes", << <<"_ctypes", "_ctypes.c">>, <<"_ctypes", "callbacks.c">>,
                                 <<"_ctypes", "callproc.c">>, <<"_ctypes", "stgdict.c">>,
                                 <<"_ctypes", "cfield.c">> >>
                              \o (IF MACOS THEN << <<"_ctypes", "malloc_closure.c">> >> ELSE <<>>))
           EXCEPT
           !.include_dirs = (IF MACOS THEN << <<"_ctypes", "darwin">> >> ELSE <<>>)
                              \o (IF system_ffi THEN ffi_inc ELSE <<>>),
           !.extra_compile_args =
               (IF MACOS
                THEN <<flag("-D", "USING_MALLOC_CLOSURE_DOT_C=1"), flag("-D", "MACOSX")>>
                ELSE <<>>)
               \o (IF apple THEN <<flag("-D", "USING_APPLE_OS_LIBFFI=1")>> ELSE <<>>)
               \o has("ffi_prep_cif_var", "HAVE_FFI_PREP_CIF_VAR=1")
               \o has("ffi_prep_closure_loc", "HAVE_FFI_PREP_CLOSURE_LOC=1")
               \o has("ffi_closure_alloc", "HAVE_FFI_CLOSURE_ALLOC=1"),
           !.extra_link_args =
               IF ~MACOS /\ HOST_PLATFORM = "sunos5" THEN <<flag("-m", "impure-text")>>
               ELSE <<>>,
           !.libraries = (IF system_ffi THEN ffi_lib ELSE <<>>)
                            \o (IF config_set("HAVE_LIBDL") THEN <<"dl">> ELSE <<>>)]

detect_ctypes(reg) ==
    addext_all(add_all(reg, <<ctypes_extension>>),
               <<Extension("_ctypes_test", << <<"_ctypes", "_ctypes_test.c">> >>)>>)

detect_multiprocessing(reg) ==
    LET semaphore == MS_WINDOWS \/ (config_set("HAVE_SEM_OPEN")
                                      /\ ~config_set("POSIX_SEMAPHORES_NOT_ENABLED"))
        multiprocessing_srcs ==
            << <<"_multiprocessing", "multiprocessing.c">> >>
               \o (IF semaphore THEN << <<"_multiprocessing", "semaphore.c">> >> ELSE <<>>)
        first == add_all(reg,
            <<[Extension("_multiprocessing", multiprocessing_srcs) EXCEPT
                  !.include_dirs = << <<"Modules", "_multiprocessing">> >>]>>)
    IN  IF ~MS_WINDOWS /\ config_set("HAVE_SHM_OPEN") /\ config_set("HAVE_SHM_UNLINK")
        THEN add_all(first,
                <<[Extension("_posixshmem", << <<"_multiprocessing", "posixshmem.c">> >>) EXCEPT
                      !.libraries = IF config_set("SHM_NEEDS_LIBRT") THEN <<"rt">> ELSE <<>>,
                      !.include_dirs = << <<"Modules", "_multiprocessing">> >>]>>)
        ELSE missing_extend(first, <<"_posixshmem">>)

detect_uuid(reg) ==
    IF config_set("HAVE_UUID_H") \/ config_set("HAVE_UUID_UUID_H")
    THEN add_all(reg, <<with_libraries(simple("_uuid", "_uuidmodule.c"),
                           IF config_set("HAVE_LIBUUID") THEN <<"uuid">> ELSE <<>>)>>)
    ELSE missing_extend(reg, <<"_uuid">>)

\* the last lines of detect_modules
detect_xxlimited(reg) ==
    IF ~config_set("Py_TRACE_REFS")
    THEN add_all(reg, <<simple("xxlimited", "xxlimited.c"),
                        simple("xxlimited_35", "xxlimited_35.c")>>)
    ELSE reg

\* the detectors of detect_modules, in the order of their calls
Detectors ==
    <<"detect_simple_extensions", "detect_test_extensions", "detect_readline_curses",
      "detect_crypt", "detect_socket", "detect_openssl_hashlib", "detect_hash_builtins",
      "detect_dbm_gdbm", "detect_sqlite", "detect_platform_specific_exts", "detect_nis",
      "detect_compress_exts", "detect_expat_elementtree", "detect_multibytecodecs",
      "detect_decimal", "detect_ctypes", "detect_multiprocessing", "detect_tkinter",
      "detect_uuid", "xxlimited">>

\* the registry after the detector named detector, for the detectors that
\* run no command
detect(detector, reg) ==
    CASE detector = "detect_simple_extensions" -> detect_simple_extensions(reg)
      [] detector = "detect_test_extensions" -> detect_test_extensions(reg)
      [] detector = "detect_crypt" -> detect_crypt(reg)
      [] detector = "detect_socket" -> detect_socket(reg)
      [] detector = "detect_openssl_hashlib" -> detect_openssl_hashlib(reg)
      [] detector = "detect_hash_builtins" -> detect_hash_builtins(reg)
      [] detector = "detect_dbm_gdbm" -> detect_dbm_gdbm(reg)
      [] detector = "detect_sqlite" -> detect_sqlite(reg)
      [] detector = "detect_platform_specific_exts" -> detect_platform_specific_exts(reg)
      [] detector = "detect_nis" -> detect_nis(reg)
      [] detector = "detect_compress_exts" -> detect_compress_exts(reg)
      [] detector = "detect_expat_elementtree" -> detect_expat_elementtree(reg)
      [] detector = "detect_multibytecodecs" -> detect_multibytecodecs(reg)
      [] detector = "detect_decimal" -> detect_decimal(reg)
      [] detector = "detect_ctypes" -> detect_ctypes(reg)
      [] detector = "detect_multiprocessing" -> detect_multiprocessing(reg)
      [] detector = "detect_uuid" -> detect_uuid(reg)
      [] detector = "xxlimited" -> detect_xxlimited(reg)

\* the variables of the config store a detection pass reads, in groups
\* that belong to one detector
PassFlagGroups ==
    {{"HAVE_GETSPNAM"}, {"HAVE_LIBREADLINE"}, {"HAVE_NDBM_H", "HAVE_LIBNDBM"},
     {"HAVE_LIBGDBM"}, {"OPENSSL_LIBS"}, {"HAVE_LIBZ"}, {"HAVE_LIBBZ2", "HAVE_LIBLZMA"},
     {"HAVE_SHM_OPEN", "HAVE_SHM_UNLINK"}, {"HAVE_UUID_H", "HAVE_LIBUUID"},
     {"Py_TRACE_REFS"}, {"HAVE_LIBDL"}}
PassFlags == UNION PassFlagGroups

\* nothing set, everything set, one group set, all groups but one set
PassFlagSets ==
    {{}, PassFlags} \cup PassFlagGroups \cup {PassFlags \ g : g \in PassFlagGroups}

\* the candidates detect_modules registers with addext
AddextNames ==
    {"_datetime", "_testcapi", "_testinternalcapi", "_testbuffer", "_testimportmultiple",
     "_testmultiphase", "_xxtestfuzz", "_sqlite3", "ossaudiodev", "_scproxy", "pyexpat",
     "_elementtree", "_ctypes_test", "_decimal", "_md5", "_sha1", "_sha256", "_sha512",
     "_sha3", "_blake2"}

\* the config store of a pass: the flags that are set, and MODULE_{NAME} of
\* every addext candidate when configure wrote them (state is not None)
pass_config(flags, state) ==
    LET base == [srcdir |-> <<"/", "src">>, CONFIG_ARGS |-> <<>>,
                 CFLAGS |-> <<word("-O", <<"2">>)>>]
        have == [f \in flags |->
                    IF f = "OPENSSL_LIBS" THEN <<flag("-l", "ssl"), flag("-l", "crypto")>>
                    ELSE 1]
        modules == IF state = None THEN <<>>
                   ELSE ("MODULE" :> [n \in {upper(m) : m \in AddextNames} |-> state])
    IN  base @@ have @@ modules

PassPlatforms == {"linux", "darwin", "aix", "vxworks", "cygwin", "win32", "qnx6"}

\* the libraries and libffi functions of a host
PassHosts ==
    {[libraries |-> {}, ffi_symbols |-> {}],
     [libraries |-> {"readline", "ncursesw", "panelw", "crypt", "nsl", "tirpc", "ffi",
                     "tk8.6", "tcl8.6"},
      ffi_symbols |-> {"ffi_prep_cif_var", "ffi_prep_closure_loc", "ffi_closure_alloc"}],
     [libraries |-> {"readline", "curses", "terminfo", "panel", "nsl/libnsl", "ffi_pic"},
      ffi_symbols |-> {"ffi_closure_alloc"}]}

PassHeaders ==
    {<<"/", "usr", "include", "openssl", "ssl.h">>,
     <<"/", "usr", "include", "nsl", "rpcsvc", "yp_prot.h">>,
     <<"/", "usr", "include", "tirpc", "rpc", "rpc.h">>,
     <<"/", "usr", "include", "ffi.h">>,
     <<"/", "usr", "include", "tcl.h">>, <<"/", "usr", "include", "tk.h">>,
     <<"/", "usr", "include", "X11", "Xlib.h">>}
PassFileSystems == {ProbeBase, ProbeBase \cup PassHeaders}

\* the outcome of the ldd and of the lipo command of a pass
PassReadlineProbes ==
    {e \in ReadlineProbes : e.sh.created /\ (e.read = "raises" \/ e.out # <<"c">>)}
PassTkProbes == {e \in TkProbes : e.sh.created /\ e.sh.status = 0}

InitDetect ==
    /\ extensions = <<>> /\ missing = <<>> /\ disabled_configure = <<>>
    /\ failed = <<>> /\ failed_on_import = <<>>
    /\ mods_built = <<>> /\ mods_disabled = <<>>
    /\ output = <<>> /\ result = "running"
    /\ pc = "detect_modules" /\ todo = Detectors
    /\ DISABLED_MODULE_LIST = {} /\ LIST_MODULE_NAMES = FALSE
    /\ HOST_PLATFORM \in PassPlatforms /\ MACOS_SDK_ROOT = <<"/">>
    /\ environ = IF HOST_PLATFORM = "vxworks"
                 THEN [_PYTHON_HOST_PLATFORM |-> "vxworks-arm"] ELSE <<>>
    /\ \E flags \in PassFlagSets, state \in {None, "yes", "disabled", "missing", "n/a"} :
          /\ state # None => flags \in {{}, PassFlags}
          /\ config_vars = pass_config(flags, state)
    /\ fs \in PassFileSystems
    /\ args \in PassHosts
    /\ ret = <<>>
    /\ self_compiler = [NoCompilerDirs EXCEPT !.include_dirs = << <<".">>, <<"Include">> >>]
    /\ lib_dirs = system_lib_dirs /\ inc_dirs = system_include_dirs

pass_frame == <<failed, failed_on_import, mods_built, mods_disabled,
                DISABLED_MODULE_LIST, LIST_MODULE_NAMES, HOST_PLATFORM,
                MACOS_SDK_ROOT, config_vars, environ, args, ret,
                self_compiler, lib_dirs, inc_dirs>>

\* where detect_modules goes after a detector
after_detector(rest, raised) ==
    IF raised # "" THEN "raised"
    ELSE IF rest = <<>> THEN "detected" ELSE "detect_modules"

\* the next detector of detect_modules, one that runs no command
DetectModulesStep ==
    /\ pc = "detect_modules" /\ todo # <<>>
    /\ Head(todo) \notin {"detect_readline_curses", "detect_tkinter"}
    /\ LET after == detect(Head(todo), registry)
       IN  /\ extensions' = after.extensions
           /\ missing' = after.missing
           /\ disabled_configure' = after.disabled_configure
    /\ todo' = Tail(todo)
    /\ pc' = after_detector(todo', "")
    /\ UNCHANGED <<fs, output, result>>
    /\ UNCHANGED pass_frame

\* detect_modules, line 1505: self.detect_readline_curses()
DetectModulesReadlineCurses ==
    /\ pc = "detect_modules" /\ todo # <<>>
    /\ Head(todo) = "detect_readline_curses"
    /\ \E probe \in PassReadlineProbes :
          LET env == [sh |-> probe.sh, read |-> probe.read, out |-> probe.out,
                      ldd |-> TRUE, libraries |-> args.libraries,
                      termcap |-> "termcap" \in args.libraries, os_release |-> 20]
              left == detect_readline_curses(fs, extensions, missing, env)
          IN  /\ fs' = left.files
              /\ extensions' = left.extensions
              /\ missing' = left.missing
              /\ pc' = after_detector(Tail(todo), left.raised)
              /\ result' = probe_result(left.raised)
    /\ todo' = Tail(todo)
    /\ UNCHANGED <<disabled_configure, output>>
    /\ UNCHANGED pass_frame

\* detect_modules, lines 1520-1521:
\* if not self.detect_tkinter(): self.missing.append('_tkinter')
DetectModulesTkinter ==
    /\ pc = "detect_modules" /\ todo # <<>>
    /\ Head(todo) = "detect_tkinter"
    /\ \E probe \in PassTkProbes :
          LET env == [sh |-> probe.sh, read |-> probe.read, out |-> probe.out,
                      libraries |-> args.libraries]
              left == detect_tkinter(fs, extensions, env)
          IN  /\ fs' = left.files
              /\ extensions' = left.extensions
              /\ missing' = IF left.raised = "" /\ ~left.found
                            THEN Append(missing, "_tkinter") ELSE missing
              /\ output' = output \o left.said
              /\ pc' = after_detector(Tail(todo), left.raised)
              /\ result' = probe_result(left.raised)
    /\ todo' = Tail(todo)
    /\ UNCHANGED disabled_configure
    /\ UNCHANGED pass_frame

NextDetect ==
    \/ DetectModulesStep
    \/ DetectModulesReadlineCurses
    \/ DetectModulesTkinter

SpecDetect == InitDetect /\ [][NextDetect]_vars

\* C28: after a full detection pass, whatever the platform and the config
\* store, no two registered candidates have the same name, no name is twice
\* in the missing list, and no name is both registered and in the missing
\* list.
C28_NamesUniqueAfterDetection ==
    pc = "detected" =>
        /\ NoDuplicates(names_of(extensions))
        /\ NoDuplicates(missing)
        /\ \A i \in DOMAIN extensions : ~Contains(missing, extensions[i].name)

\* the same during the pass, after each detector
C28_NamesUniqueDuringDetection ==
    /\ NoDuplicates(names_of(extensions))
    /\ NoDuplicates(missing)
    /\ \A i \in DOMAIN extensions : ~Contains(missing, extensions[i].name)

\* a pass on VxWorks has ended: _crypt is missing, the registry is filled
C28_Witness ==
    /\ pc = "detected" /\ VXWORKS
    /\ Contains(missing, "_crypt") /\ Contains(missing, "_tkinter")
    /\ Len(extensions) > 40

\* a pass whose config store marks the addext candidates as missing
C28_WitnessConfigured ==
    /\ pc = "detected" /\ Contains(missing, "_decimal") /\ Contains(missing, "_md5")
    /\ Registered("_ssl") /\ Registered("_curses_panel") /\ Registered("_uuid")

(***************************************************************************)
(* add_ldflags_cppflags on its own.                                        *)
(***************************************************************************)
\* the longest LDFLAGS or CPPFLAGS of the model, in words
MaxFlags == 3

\* A word of LDFLAGS or CPPFLAGS is word(switch, path): "-L/opt/lib" is
\* word("-L", <<"/", "opt", "lib">>), a lone "-L" is word("-L", <<>>), and
\* a word without a dash is word("", path).
\*
\* options.dirs after the regular expression and parse_known_args: every
\* dash option other than arg_name has lost its dashes and is a positional
\* word, which the parser sets aside; arg_name takes the rest of its word
\* or, when it stands alone, the next word; a lone arg_name with no word
\* after it, or with another arg_name after it, is a usage error
\*
\* the text of a word that has lost its dashes, read as a directory: "-lz"
\* is the relative path "lz", which is none of the directories of the model
positional(w) == IF w.switch = "" THEN w.path ELSE <<w.switch>> \o w.path

RECURSIVE options_dirs(_, _)
options_dirs(value, arg_name) ==
    IF value = <<>> THEN [error |-> FALSE, dirs |-> <<>>]
    ELSE LET w == Head(value)
             rest == options_dirs(Tail(value), arg_name)
         IN  IF w.switch # arg_name THEN rest
             ELSE IF w.path # <<>>
             THEN [rest EXCEPT !.dirs = <<w.path>> \o @]
             ELSE IF Tail(value) = <<>> \/ Head(Tail(value)).switch = arg_name
             THEN [error |-> TRUE, dirs |-> <<>>]
             ELSE LET after == options_dirs(Tail(Tail(value)), arg_name)
                  IN  [after EXCEPT !.dirs = <<positional(Head(Tail(value)))>> \o @]

\* the loop without reversed(): options.dirs from the front
add_in_flag_order(files, dir_list, dirs) == add_dirs_to_list(files, dir_list, dirs)

\* for directory in reversed(options.dirs): add_dir_to_list(dir_list, directory)
RECURSIVE add_reversed(_, _, _)
add_reversed(files, dir_list, dirs) ==
    IF dirs = <<>> THEN dir_list
    ELSE add_reversed(files, add_dir_to_list(files, dir_list, dir_(dirs[Len(dirs)])),
                      SubSeq(dirs, 1, Len(dirs) - 1))

\* one round of the loop of add_ldflags_cppflags: the list after it
add_flag_dirs(files, dir_list, env_var, arg_name) ==
    IF ~config_set(env_var) \/ config_vars[env_var] = <<>> THEN dir_list
    ELSE add_reversed(files, dir_list, options_dirs(config_vars[env_var], arg_name).dirs)

\* whether the parser of a round ends the program with a usage error
flag_dirs_error(env_var, arg_name) ==
    /\ config_set(env_var)
    /\ options_dirs(config_vars[env_var], arg_name).error

\* add_ldflags_cppflags: the lists of the compiler after it.  The three
\* rounds work on three different lists.
add_ldflags_cppflags(files, comp) ==
    [comp EXCEPT
        !.runtime_library_dirs =
            add_flag_dirs(files, @, "LDFLAGS", "-R"),
        !.library_dirs =
            IF flag_dirs_error("LDFLAGS", "-R") THEN @
            ELSE add_flag_dirs(files, @, "LDFLAGS", "-L"),
        !.include_dirs =
            IF flag_dirs_error("LDFLAGS", "-R") \/ flag_dirs_error("LDFLAGS", "-L") THEN @
            ELSE add_flag_dirs(files, @, "CPPFLAGS", "-I")]

add_ldflags_cppflags_raises ==
    \/ flag_dirs_error("LDFLAGS", "-R") \/ flag_dirs_error("LDFLAGS", "-L")
    \/ flag_dirs_error("CPPFLAGS", "-I")

\* the directories the flags name and the words between them
FlagPlaces == {<<"/", "opt", "lib">>, <<"/", "usr", "local", "lib">>, <<"lib">>}
LdflagsWords ==
    {word("-L", d) : d \in FlagPlaces} \cup
    {word("-R", <<"/", "opt", "lib">>), word("-L", <<>>), word("-l", <<"z">>)}
CppflagsValues ==
    {<<>>, <<word("-I", <<"/", "opt", "lib">>), word("-D", <<"NDEBUG">>), word("-I", <<"lib">>)>>,
     <<word("-D", <<"NDEBUG">>), word("-I", <<>>)>>}
FlagLists ==
    {head \o tail : head \in LeadingRelative, tail \in {<<>>, << <<"/", "usr", "lib">> >>}}

\* the directories that exist: the build directory with its Include, and
\* any of the places the flags name
FlagFileSystems ==
    {{Append(getcwd, ""), <<"/", "build", "Include", "">>}
        \cup {Append(abspath(d), "") : d \in dirs} : dirs \in SUBSET FlagPlaces}

InitFlags ==
    /\ InitObject
    /\ pc = "add_ldflags_cppflags"
    /\ extensions = <<>>
    /\ DISABLED_MODULE_LIST = {} /\ LIST_MODULE_NAMES = FALSE
    /\ HOST_PLATFORM = "linux" /\ MACOS_SDK_ROOT = <<"/">>
    /\ environ = <<>> /\ ret = <<>>
    /\ lib_dirs = <<>> /\ inc_dirs = <<>>
    /\ fs \in FlagFileSystems
    /\ \E ldflags \in SeqsUpTo(LdflagsWords, MaxFlags),
          cppflags \in CppflagsValues,
          given \in SUBSET {"LDFLAGS", "CPPFLAGS"} :
          /\ "LDFLAGS" \notin given => ldflags = <<>>
          /\ "CPPFLAGS" \notin given => cppflags = <<>>
          /\ config_vars = only_set(given \cup {"srcdir"},
                                    [srcdir |-> <<"/", "src">>, LDFLAGS |-> ldflags,
                                     CPPFLAGS |-> cppflags])
    /\ \E dirs \in FlagLists :
          /\ self_compiler = [NoCompilerDirs EXCEPT !.library_dirs = dirs,
                                                    !.include_dirs = dirs]
          /\ args = self_compiler

\* self.add_ldflags_cppflags(); args keeps the lists as they were
AddLdflagsCppflags ==
    /\ pc = "add_ldflags_cppflags"
    /\ self_compiler' = add_ldflags_cppflags(fs, self_compiler)
    /\ IF add_ldflags_cppflags_raises
       THEN pc' = "raised" /\ result' = "SystemExit"
       ELSE pc' = "flags_added" /\ result' = result
    /\ UNCHANGED <<extensions, missing, disabled_configure, failed,
                   failed_on_import, mods_built, mods_disabled,
                   DISABLED_MODULE_LIST, LIST_MODULE_NAMES, HOST_PLATFORM,
                   MACOS_SDK_ROOT, config_vars, environ, fs, todo, output,
                   args, ret, lib_dirs, inc_dirs>>

NextFlags == AddLdflagsCppflags

SpecFlags == InitFlags /\ [][NextFlags]_vars

\* the directories the -L flags of LDFLAGS give, d1..dn
GivenLibraryDirs ==
    IF config_set("LDFLAGS") THEN options_dirs(config_vars["LDFLAGS"], "-L").dirs ELSE <<>>

\* the case of the claim: the call returned, the directories are different
\* directories that exist, and none was in the list
OrderCase ==
    /\ pc = "flags_added"
    /\ GivenLibraryDirs # <<>> /\ NoDuplicates(GivenLibraryDirs)
    /\ \A i \in DOMAIN GivenLibraryDirs :
          /\ isdir(fs, GivenLibraryDirs[i])
          /\ ~Contains(args.library_dirs, GivenLibraryDirs[i])

\* the given directories in the order the list has them
InListOrder ==
    SelectSeq(self_compiler.library_dirs, LAMBDA d : Contains(GivenLibraryDirs, d))

\* C30: when the directories d1..dn of the -L flags all exist and none is
\* in the list, they are in the list afterwards in the order d1..dn, for
\* relative and absolute directories, whether or not the list held a
\* relative entry.
C30_FlagOrderPreserved ==
    OrderCase => InListOrder = GivenLibraryDirs

\* what holds instead: the order is kept exactly when the list held a
\* relative entry or no directory after the first is relative
C30_FlagOrderPreservedUnlessRelativeLater ==
    OrderCase =>
        (InListOrder = GivenLibraryDirs
            <=> \/ \E i \in DOMAIN args.library_dirs : ~isabs(args.library_dirs[i])
                \/ \A j \in 2..Len(GivenLibraryDirs) : isabs(GivenLibraryDirs[j]))

\* two absolute directories and a relative one in front of them have
\* joined a list that held '.' and an absolute directory
C30_Witness ==
    /\ OrderCase /\ Len(GivenLibraryDirs) = 3
    /\ InListOrder = GivenLibraryDirs
    /\ ~isabs(GivenLibraryDirs[1])
    /\ Len(args.library_dirs) = 2

\* a relative directory after an absolute one has ended in front of it
C30_WitnessReordered ==
    /\ OrderCase /\ InListOrder # GivenLibraryDirs
    /\ args.library_dirs = <<>>

====
